---- MODULE Spec2Model ----
(***************************************************************************)
(* Cross-system reconciliation engine of argo_migration: batched           *)
(* fail-fast retrieval (BatchProcessor), sampling coordination             *)
(* (DataComparator / SmartSampler), report aggregation                     *)
(* (DatasetComparator.generate_report), row-count negligibility            *)
(* (RowCountComparator) and sample-size selection (SmartSampler).          *)
(***************************************************************************)
EXTENDS Integers, Sequences, FiniteSets, TLC

(***************************************************************************)
(* Bounds of the model                                                     *)
(***************************************************************************)
\* largest sample handed to process_batches in SpecBatch
MaxKeys == 120
\* largest number of rows one query returns
MaxRows == 2
\* largest population handed to calculate_sample_size in SpecSampleSize
MaxTotalRows == 10050
\* largest absolute row-count difference enumerated densely in SpecRowCount
MaxSmallDiff == 12

(***************************************************************************)
(* Generic helpers                                                         *)
(***************************************************************************)
Min(a, b) == IF a <= b THEN a ELSE b

Max(a, b) == IF a >= b THEN a ELSE b

Abs(a) == IF a >= 0 THEN a ELSE 0 - a

\* ceil(a / b) for a >= 0, b > 0 (math.ceil of an exact quotient)
CeilDiv(a, b) == (a + b - 1) \div b

RECURSIVE Flatten(_)
\* pd.concat(dfs, ignore_index=True): the rows of the frames in list order
Flatten(dfs) == IF dfs = <<>> THEN <<>> ELSE Head(dfs) \o Flatten(Tail(dfs))

RECURSIVE SumLen(_)
SumLen(dfs) == IF dfs = <<>> THEN 0 ELSE Len(Head(dfs)) + SumLen(Tail(dfs))

VARIABLES
    \* ---- BatchProcessor.process_batches ----
    bp_pc,              \* "idle" | "build" | "domo" | "sf" | "returned" | "raised"
    sampled_keys_df,    \* the sample: a sequence of key ids
    bp_i,               \* loop variable i of process_batches (0-based offset)
    current_batch_num,  \* self._current_batch_num
    batch_keys_df,      \* the slice handed to _get_batch_data
    domo_batch_df,      \* rows of the source for the running batch
    domo_dfs,           \* list of non-empty source batch frames
    sf_dfs,             \* list of non-empty warehouse batch frames
    bp_result,          \* <<domo_df, sf_df>> returned to the caller, or <<>>
    bp_error,           \* message of the exception that left process_batches
    query_log,          \* every query issued to either system, in order
    batch_calls,        \* every slice handed to _get_batch_data, in order
    \* ---- pure functions under test ----
    fn_name,            \* which function the specification applies
    fn_args,            \* its arguments
    fn_ret,             \* its result, once applied
    \* ---- DatasetComparator.generate_report and its components ----
    gr_pc,                  \* position inside generate_report / compare_data_samples
    gr_args,                \* arguments of generate_report
    connected,              \* self._domo_connected and self._snowflake_connected
    self_errors,            \* DatasetComparator.errors
    dc_errors,              \* DataComparator.errors
    domo_original_columns,  \* SchemaComparator.domo_original_columns
    intelligent_mapping,    \* SchemaComparator.intelligent_mapping
    schema_comparison,      \* result of compare_schemas
    row_count_comparison,   \* result of compare_row_counts
    sample_size,            \* local sample_size of compare_data_samples
    actual_sampling_method, \* local actual_sampling_method
    sampler_calls,          \* calls of the SmartSampler's sampling methods, in order
    random_error,           \* the exception caught at line 140, <<>> if none
    ordered_error,          \* the exception caught at line 128 or 152, <<>> if none
    all_keys_df,            \* the key universe fetched by _get_all_unique_keys
    rng_state,              \* state of the module-level generator of random
    sample_runs,            \* the samples drawn by successive key selections, in order
    sample_frames,          \* <<domo_df, sf_df>> handed to datacompy
    data_comparison,        \* result of compare_data_samples
    report                  \* the report returned by generate_report

bp_vars == <<bp_pc, sampled_keys_df, bp_i, current_batch_num, batch_keys_df,
             domo_batch_df, domo_dfs, sf_dfs, bp_result, bp_error,
             query_log, batch_calls>>

fn_vars == <<fn_name, fn_args, fn_ret>>

cmp_vars == <<gr_pc, gr_args, connected, self_errors, dc_errors, domo_original_columns,
              intelligent_mapping, schema_comparison, row_count_comparison, sample_size,
              actual_sampling_method, sampler_calls, random_error, ordered_error,
              all_keys_df, rng_state, sample_runs, sample_frames, data_comparison,
              report>>

(***************************************************************************)
(* Query outcomes.  A handler call either raises (the handler's own        *)
(* _ensure_authenticated / _ensure_connected check), or the driver raises  *)
(* inside the handler, which catches it and returns None ("error"), or it  *)
(* returns a frame of n rows.                                              *)
(***************************************************************************)
Raise == [kind |-> "raise", n |-> 0]

DriverError == [kind |-> "error", n |-> 0]

RowsOut(r) == [kind |-> "rows", n |-> r]

QueryOutcomes == {Raise, DriverError} \cup {RowsOut(r) : r \in 0..MaxRows}

\* the rows a system returns for batch b: r distinguishable rows
Rows(sys, b, r) == [j \in 1..r |-> <<sys, b, j>>]

\* DomoDataExtractor.extract_data / SnowflakeDataHandler.execute_query:
\* a driver exception is caught and None is returned; _get_batch_data then
\* turns None or an empty frame into an empty frame
HandlerFrame(sys, b, o) == IF o.kind = "rows" THEN Rows(sys, b, o.n) ELSE <<>>

max_batch_size == 50

\* batch_end = min(i + max_batch_size, len(sampled_keys_df))
batch_end(i, n) == Min(i + max_batch_size, n)

\* mutant of batch_num_of: every batch carries the number of the first
batch_num_of_first(i) == 1

\* batch_num = i // max_batch_size + 1
batch_num_of(i) == (i \div max_batch_size) + 1

\* mutant of BatchSlice: every call is handed the whole sample
BatchSlice_whole(keys, i) == keys

\* sampled_keys_df.iloc[i:batch_end] in the batched path, the whole sample otherwise
BatchSlice(keys, i) ==
    IF Len(keys) > max_batch_size
    THEN SubSeq(keys, i + 1, batch_end(i, Len(keys)))
    ELSE keys

\* mutant of FirstBatchFails: the first batch is fatal only when both sides are empty
FirstBatchFails_BothOnly(has_domo_data, has_sf_data) == ~has_domo_data /\ ~has_sf_data

\* line 85 / lines 138-149: the first (or only) batch is fatal when either side is empty
FirstBatchFails(has_domo_data, has_sf_data) == ~has_domo_data \/ ~has_sf_data

\* mutant of LaterBatchFails: a later batch is fatal when either side is empty
LaterBatchFails_Either(has_domo_data, has_sf_data) == ~has_domo_data \/ ~has_sf_data

\* line 100: a later batch is fatal only when both sides are empty
LaterBatchFails(has_domo_data, has_sf_data) == ~has_domo_data /\ ~has_sf_data

\* lines 106-109: only non-empty frames are appended
AppendIfData(dfs, df) == IF df # <<>> THEN Append(dfs, df) ELSE dfs

\* mutant of NextOffset: the loop skips one key between batches
NextOffset_Skip(i) == i + max_batch_size + 1

\* the next value of the loop variable: range(0, len, max_batch_size)
NextOffset(i) == i + max_batch_size

BatchMessage(is_first, single, has_domo_data, has_sf_data) ==
    LET who == IF ~has_domo_data /\ ~has_sf_data THEN "either Domo or Snowflake"
               ELSE IF ~has_domo_data THEN "Domo" ELSE "Snowflake"
    IN IF single THEN <<"SINGLE BATCH FAILURE", who>>
       ELSE IF is_first THEN <<"FIRST BATCH FAILURE", who>>
       ELSE <<"Batch failed: No data from either source", who>>

(***************************************************************************)
(* BatchProcessor._get_batch_data, first part: the two filters are built   *)
(* before any query; an empty slice raises "No sampled keys provided".     *)
(***************************************************************************)
BuildWhereClauses ==
    /\ bp_pc = "build"
    /\ LET keys == BatchSlice(sampled_keys_df, bp_i)
           batched == Len(sampled_keys_df) > max_batch_size
       IN /\ batch_keys_df' = keys
          /\ batch_calls' = Append(batch_calls, keys)
          /\ current_batch_num' = IF batched THEN batch_num_of(bp_i) ELSE current_batch_num
          /\ IF keys = <<>>
             THEN /\ bp_pc' = "raised"
                  /\ bp_error' = <<"No sampled keys provided">>
             ELSE /\ bp_pc' = "domo"
                  /\ bp_error' = bp_error
    /\ UNCHANGED <<sampled_keys_df, bp_i, domo_batch_df, domo_dfs, sf_dfs,
                   bp_result, query_log>>
    /\ UNCHANGED cmp_vars

(***************************************************************************)
(* _get_batch_data, lines 183-203: the source query of the batch.          *)
(***************************************************************************)
DomoQuery(o) ==
    /\ bp_pc = "domo"
    /\ query_log' = Append(query_log,
           [sys |-> "domo", batch |-> batch_num_of(bp_i), keys |-> batch_keys_df, out |-> o])
    /\ IF o.kind = "raise"
       THEN /\ bp_pc' = "raised"
            /\ bp_error' = <<"Error executing Domo query">>
            /\ UNCHANGED domo_batch_df
       ELSE /\ bp_pc' = "sf"
            /\ domo_batch_df' = HandlerFrame("domo", batch_num_of(bp_i), o)
            /\ UNCHANGED bp_error
    /\ UNCHANGED <<sampled_keys_df, bp_i, current_batch_num, batch_keys_df,
                   domo_dfs, sf_dfs, bp_result, batch_calls>>
    /\ UNCHANGED cmp_vars

(***************************************************************************)
(* _get_batch_data, lines 205-230: the warehouse query of the batch, then  *)
(* process_batches up to the next call of _get_batch_data: the fail-fast   *)
(* tests, the appends, the loop step and, after the last batch, the        *)
(* concatenation and the final emptiness tests.                            *)
(***************************************************************************)
SfQuery(o) ==
    /\ bp_pc = "sf"
    /\ query_log' = Append(query_log,
           [sys |-> "sf", batch |-> batch_num_of(bp_i), keys |-> batch_keys_df, out |-> o])
    /\ LET n == Len(sampled_keys_df)
           batched == n > max_batch_size
           is_first_batch == (bp_i = 0)
           sf_batch_df == HandlerFrame("sf", batch_num_of(bp_i), o)
           has_domo_data == domo_batch_df # <<>>
           has_sf_data == sf_batch_df # <<>>
           fails == IF batched /\ ~is_first_batch
                    THEN LaterBatchFails(has_domo_data, has_sf_data)
                    ELSE FirstBatchFails(has_domo_data, has_sf_data)
           new_domo_dfs == AppendIfData(domo_dfs, domo_batch_df)
           new_sf_dfs == AppendIfData(sf_dfs, sf_batch_df)
           last == ~batched \/ NextOffset(bp_i) >= n
           domo_df == IF batched THEN Flatten(new_domo_dfs) ELSE domo_batch_df
           sf_df == IF batched THEN Flatten(new_sf_dfs) ELSE sf_batch_df
       IN IF o.kind = "raise"
          THEN /\ bp_pc' = "raised"
               /\ bp_error' = <<"Error executing Snowflake query">>
               /\ UNCHANGED <<bp_i, domo_dfs, sf_dfs, bp_result>>
          ELSE IF fails
          THEN /\ bp_pc' = "raised"
               /\ bp_error' = BatchMessage(is_first_batch, ~batched, has_domo_data, has_sf_data)
               /\ UNCHANGED <<bp_i, domo_dfs, sf_dfs, bp_result>>
          ELSE IF ~last
          THEN /\ bp_pc' = "build"
               /\ bp_i' = NextOffset(bp_i)
               /\ domo_dfs' = new_domo_dfs
               /\ sf_dfs' = new_sf_dfs
               /\ UNCHANGED <<bp_result, bp_error>>
          ELSE IF batched /\ (new_domo_dfs = <<>> \/ new_sf_dfs = <<>>)
          THEN /\ bp_pc' = "raised"
               /\ bp_error' = <<"No data returned from any batch">>
               /\ domo_dfs' = new_domo_dfs
               /\ sf_dfs' = new_sf_dfs
               /\ UNCHANGED <<bp_i, bp_result>>
          ELSE IF domo_df = <<>> \/ sf_df = <<>>
          THEN /\ bp_pc' = "raised"
               /\ bp_error' = <<"No data returned with sampled keys">>
               /\ UNCHANGED <<bp_i, domo_dfs, sf_dfs, bp_result>>
          ELSE /\ bp_pc' = "returned"
               /\ bp_result' = <<domo_df, sf_df>>
               /\ domo_dfs' = IF batched THEN new_domo_dfs ELSE domo_dfs
               /\ sf_dfs' = IF batched THEN new_sf_dfs ELSE sf_dfs
               /\ UNCHANGED <<bp_i, bp_error>>
    /\ UNCHANGED <<sampled_keys_df, current_batch_num, batch_keys_df,
                   domo_batch_df, batch_calls>>
    /\ UNCHANGED cmp_vars

\* the state in which process_batches has just been called with the sample keys
ProcessBatchesCalled(keys) ==
    /\ bp_pc = "build"
    /\ sampled_keys_df = keys
    /\ bp_i = 0
    /\ current_batch_num = 0
    /\ batch_keys_df = <<>>
    /\ domo_batch_df = <<>>
    /\ domo_dfs = <<>>
    /\ sf_dfs = <<>>
    /\ bp_result = <<>>
    /\ bp_error = <<>>
    /\ query_log = <<>>
    /\ batch_calls = <<>>

\* no process_batches call has been made
BatchIdle ==
    /\ bp_pc = "idle"
    /\ sampled_keys_df = <<>>
    /\ bp_i = 0
    /\ current_batch_num = 0
    /\ batch_keys_df = <<>>
    /\ domo_batch_df = <<>>
    /\ domo_dfs = <<>>
    /\ sf_dfs = <<>>
    /\ bp_result = <<>>
    /\ bp_error = <<>>
    /\ query_log = <<>>
    /\ batch_calls = <<>>

FnIdle ==
    /\ fn_name = "none"
    /\ fn_args = <<>>
    /\ fn_ret = <<>>

\* a freshly constructed DatasetComparator on which generate_report was not called
CompareIdle ==
    /\ gr_pc = "idle"
    /\ gr_args = <<>>
    /\ connected = FALSE
    /\ self_errors = <<>>
    /\ dc_errors = <<>>
    /\ domo_original_columns = <<>>
    /\ intelligent_mapping = <<>>
    /\ schema_comparison = <<>>
    /\ row_count_comparison = <<>>
    /\ sample_size = 0
    /\ actual_sampling_method = "none"
    /\ sampler_calls = <<>>
    /\ random_error = <<>>
    /\ ordered_error = <<>>
    /\ all_keys_df = <<>>
    /\ rng_state = 0
    /\ sample_runs = <<>>
    /\ sample_frames = <<>>
    /\ data_comparison = <<>>
    /\ report = <<>>

vars == <<bp_vars, fn_vars, cmp_vars>>

(***************************************************************************)
(* SpecBatch: process_batches called on a sample of 0..MaxKeys keys.       *)
(***************************************************************************)
InitBatch ==
    /\ \E n \in 0..MaxKeys : ProcessBatchesCalled([j \in 1..n |-> j])
    /\ FnIdle
    /\ CompareIdle

BatchStep ==
    \/ BuildWhereClauses
    \/ \E o \in QueryOutcomes : DomoQuery(o)
    \/ \E o \in QueryOutcomes : SfQuery(o)

NextBatch == BatchStep /\ UNCHANGED fn_vars

SpecBatch == InitBatch /\ [][NextBatch]_vars

(***************************************************************************)
(* Claims about process_batches (SpecBatch)                                *)
(***************************************************************************)
\* a logged query that produced no rows: an empty frame, or None after a driver error
ReturnedNoRows(e) == e.out.kind = "error" \/ (e.out.kind = "rows" /\ e.out.n = 0)

ReturnedRows(e) == e.out.kind = "rows" /\ e.out.n > 0

QueriesOf(sys) == {k \in DOMAIN query_log : query_log[k].sys = sys}

\* C1: when the first (or only) batch returned zero rows from the source, from
\* the warehouse or from both, process_batches has raised, returns nothing, and
\* each system has been queried exactly once (no query of a later batch).
C1_FirstBatchFailFast ==
    (/\ Len(query_log) >= 2
     /\ ReturnedNoRows(query_log[1]) \/ ReturnedNoRows(query_log[2]))
    => /\ bp_pc = "raised"
       /\ bp_result = <<>>
       /\ Len(query_log) = 2
       /\ Cardinality(QueriesOf("domo")) = 1
       /\ Cardinality(QueriesOf("sf")) = 1
       /\ query_log[1].batch = 1 /\ query_log[2].batch = 1

\* C1 witness: a sample of more than one batch whose first batch got no row
\* from the source and rows from the warehouse, after the call has ended
C1_Witness ==
    /\ Len(sampled_keys_df) > 50
    /\ bp_pc = "raised"
    /\ Len(query_log) = 2
    /\ ReturnedNoRows(query_log[1])
    /\ ReturnedRows(query_log[2])

\* C2: in a batch after the first, when both systems returned zero rows the
\* call raises at once; when exactly one did, the call does not raise, appends
\* the rows of the non-empty side only, and goes on to the next batch (or, after
\* the last batch, returns); a raised call issues no further query.
C2_LaterBatchRule ==
    [][ /\ (bp_pc = "raised" => query_log' = query_log)
        /\ (/\ bp_pc = "sf"
            /\ bp_i > 0
            /\ Len(query_log') = Len(query_log) + 1
            /\ query_log'[Len(query_log')].out.kind # "raise")
           => LET sf_empty == ReturnedNoRows(query_log'[Len(query_log')])
                  domo_empty == ReturnedNoRows(query_log[Len(query_log)])
                  more == bp_i + 50 < Len(sampled_keys_df)
              IN /\ (domo_empty /\ sf_empty) => (bp_pc' = "raised" /\ bp_result' = <<>>)
                 /\ (domo_empty # sf_empty) =>
                       /\ bp_pc' # "raised"
                       /\ Len(domo_dfs') = Len(domo_dfs) + (IF domo_empty THEN 0 ELSE 1)
                       /\ Len(sf_dfs') = Len(sf_dfs) + (IF sf_empty THEN 0 ELSE 1)
                       /\ ~domo_empty => domo_dfs'[Len(domo_dfs')] = domo_batch_df
                       /\ more => (bp_pc' = "build" /\ bp_i' = bp_i + 50)
                       /\ ~more => (bp_pc' = "returned" /\ bp_result' # <<>>)
      ]_vars

\* C2 witness: the second batch got rows from the warehouse only and the call
\* went on to a third batch
C2_Witness ==
    /\ Len(query_log) >= 5
    /\ ReturnedNoRows(query_log[3])
    /\ ReturnedRows(query_log[4])
    /\ query_log[5].batch = 3

\* C3 (as claimed): a query that failed with an exception, whether the handler
\* raised it or caught it from the driver, is the last query of the fetch: no
\* query of a later batch follows it and no row set is returned.
C3_FailedQueryStopsFetch ==
    \A k \in DOMAIN query_log :
        query_log[k].out.kind \in {"raise", "error"}
        => /\ bp_pc # "returned"
           /\ \A j \in DOMAIN query_log : j > k => query_log[j].batch = query_log[k].batch

\* the k-th slice of a sample of n keys cut every 50 keys
ExpectedSlice(keys, k) ==
    IF Len(keys) <= 50 THEN keys
    ELSE SubSeq(keys, 50 * (k - 1) + 1, Min(50 * k, Len(keys)))

ExpectedBatches(n) == IF n <= 50 THEN 1 ELSE CeilDiv(n, 50)

\* rows the log says system sys returned for batch k (its k-th query)
LoggedFrame(sys, k) ==
    LET e == query_log[IF sys = "domo" THEN 2 * k - 1 ELSE 2 * k]
    IN IF e.out.kind = "rows" THEN [j \in 1..e.out.n |-> <<sys, k, j>>] ELSE <<>>

RECURSIVE LoggedConcat(_, _, _)
LoggedConcat(sys, k, nb) ==
    IF k > nb THEN <<>> ELSE LoggedFrame(sys, k) \o LoggedConcat(sys, k + 1, nb)

RECURSIVE LoggedCount(_, _, _)
LoggedCount(sys, k, nb) ==
    IF k > nb THEN 0 ELSE Len(LoggedFrame(sys, k)) + LoggedCount(sys, k + 1, nb)

\* C4: the slices handed to _get_batch_data are, in order, the consecutive
\* slices of at most 50 keys of the sample (one slice when n <= 50), each is
\* queried once on the source and then once on the warehouse, and on success
\* exactly ceil(n/50) batches (one when n <= 50) were issued and each returned
\* row set is the concatenation of the per-batch results in batch order, its
\* row count being the sum of the per-batch counts.
C4_BatchSlicing ==
    LET n == Len(sampled_keys_df) IN
    /\ bp_pc # "idle" =>
        /\ Len(batch_calls) <= ExpectedBatches(n)
        /\ \A k \in DOMAIN batch_calls :
              /\ batch_calls[k] = ExpectedSlice(sampled_keys_df, k)
              /\ Len(batch_calls[k]) <= 50
        /\ \A q \in DOMAIN query_log :
              /\ query_log[q].sys = (IF q % 2 = 1 THEN "domo" ELSE "sf")
              /\ query_log[q].batch = (q + 1) \div 2
              /\ query_log[q].keys = ExpectedSlice(sampled_keys_df, (q + 1) \div 2)
    /\ bp_pc = "returned" =>
        /\ Len(batch_calls) = ExpectedBatches(n)
        /\ Len(query_log) = 2 * ExpectedBatches(n)
        /\ bp_result[1] = LoggedConcat("domo", 1, ExpectedBatches(n))
        /\ bp_result[2] = LoggedConcat("sf", 1, ExpectedBatches(n))
        /\ Len(bp_result[1]) = LoggedCount("domo", 1, ExpectedBatches(n))
        /\ Len(bp_result[2]) = LoggedCount("sf", 1, ExpectedBatches(n))

\* C4 witness: 120 keys fetched successfully in three batches
C4_Witness ==
    /\ bp_pc = "returned"
    /\ Len(sampled_keys_df) = 120
    /\ Len(batch_calls) = 3
    /\ Len(bp_result[1]) > 0

(***************************************************************************)
(* SmartSampler.calculate_sample_size.  Python floats are modelled by      *)
(* exact rationals: z_score, p and margin_of_error are carried as scaled   *)
(* integers (1.96 = 196/100, 0.5 = 5/10, margin = margin_pct/100).         *)
(***************************************************************************)
sample_size_cutoff == 1000

z_score_x100 == 196

p_x10 == 5

default_margin_pct == 5

\* numerator / denominator = z^2 p (1-p) / margin^2 as a fraction of integers,
\* both scaled by 10^4: 1.96^2 * 0.5 * 0.5 = 9604 / 10^4, margin^2 = margin_pct^2 / 10^4
n0_num == (z_score_x100 * z_score_x100 * p_x10 * (10 - p_x10)) \div 100

n0_den(margin_pct) == margin_pct * margin_pct

\* mutant of calculate_sample_size: the corrected size is truncated, not rounded up
calculate_sample_size_floor(total_rows, confidence_level, margin_pct) ==
    IF total_rows <= sample_size_cutoff
    THEN Min(total_rows, sample_size_cutoff)
    ELSE Min((n0_num * total_rows)
                \div (n0_den(margin_pct) * total_rows + n0_num - n0_den(margin_pct)),
             total_rows)

\* sample_size = n0 / (1 + (n0 - 1)/total_rows) = n0*N / (N + n0 - 1), then ceil, capped at N
calculate_sample_size(total_rows, confidence_level, margin_pct) ==
    IF total_rows <= sample_size_cutoff
    THEN Min(total_rows, sample_size_cutoff)
    ELSE Min(CeilDiv(n0_num * total_rows,
                     n0_den(margin_pct) * total_rows + n0_num - n0_den(margin_pct)),
             total_rows)

ConfidenceLevels == {90, 95, 99}

InitSampleSize ==
    /\ fn_name = "calculate_sample_size"
    /\ \E N \in 0..MaxTotalRows, c \in ConfidenceLevels :
          fn_args = [total_rows |-> N, confidence_level |-> c,
                     margin_pct |-> default_margin_pct]
    /\ fn_ret = <<>>
    /\ BatchIdle
    /\ CompareIdle

ApplySampleSize ==
    /\ fn_name = "calculate_sample_size"
    /\ fn_ret = <<>>
    /\ fn_ret' = <<calculate_sample_size(fn_args.total_rows, fn_args.confidence_level,
                                         fn_args.margin_pct)>>
    /\ UNCHANGED <<fn_name, fn_args, bp_vars, cmp_vars>>

NextSampleSize == ApplySampleSize

SpecSampleSize == InitSampleSize /\ [][NextSampleSize]_vars

\* C10: calculate_sample_size(N) is N for 0 <= N <= 1000; for N > 1000 it is
\* ceil(38416*N / (100*N + 38316)) capped at N; it never exceeds N, is the same
\* for every confidence level passed, and is 370 for N = 10000.
C10_SampleSize ==
    (fn_name = "calculate_sample_size" /\ fn_ret # <<>>) =>
        LET N == fn_args.total_rows
            r == fn_ret[1]
        IN /\ N <= 1000 => r = N
           /\ N > 1000 => r = Min(CeilDiv(38416 * N, 100 * N + 38316), N)
           /\ r <= N
           /\ N = 10000 => r = 370

\* C10 witness: the size computed for a population of 10000 rows
C10_Witness ==
    /\ fn_name = "calculate_sample_size"
    /\ fn_ret = <<370>>
    /\ fn_args.total_rows = 10000

(***************************************************************************)
(* RowCountComparator._analyze_row_count_difference.  The float percentage *)
(* (difference / max) * 100 is carried as the exact fraction               *)
(* pct_num / pct_den.                                                      *)
(***************************************************************************)
abs_negligible_rows == 10

large_dataset_rows == 10000

\* percentage <= 0.1  <=>  10 * pct_num <= pct_den
PctAtMostTenth(pct_num, pct_den) == 10 * pct_num <= pct_den

\* percentage <= 1.0  <=>  pct_num <= pct_den
PctAtMostOne(pct_num, pct_den) == pct_num <= pct_den

\* mutant of percentage_base: the percentage is taken of the smaller count
percentage_base_min(domo_count, snowflake_count) == Min(domo_count, snowflake_count)

\* line 79: the percentage is taken of max(domo_count, snowflake_count)
percentage_base(domo_count, snowflake_count) == Max(domo_count, snowflake_count)

\* mutant of IsLargeDataset: the 1.0% rule applies to a dataset of any size
IsLargeDataset_Always(domo_count, snowflake_count) == TRUE

\* line 94: max(domo_count, snowflake_count) >= 10000
IsLargeDataset(domo_count, snowflake_count) ==
    Max(domo_count, snowflake_count) >= large_dataset_rows

analyze_row_count_difference(domo_count, snowflake_count) ==
    IF domo_count = 0 /\ snowflake_count = 0
    THEN [is_negligible |-> TRUE, reason |-> "Both datasets are empty",
          pct_num |-> 0, pct_den |-> 1]
    ELSE IF domo_count = 0 \/ snowflake_count = 0
    THEN [is_negligible |-> FALSE, reason |-> "One dataset is empty",
          pct_num |-> 100, pct_den |-> 1]
    ELSE LET difference == Abs(snowflake_count - domo_count)
             pn == difference * 100
             pd == percentage_base(domo_count, snowflake_count)
         IN IF difference <= abs_negligible_rows
            THEN [is_negligible |-> TRUE, reason |-> "Very small absolute difference",
                  pct_num |-> pn, pct_den |-> pd]
            ELSE IF PctAtMostTenth(pn, pd)
            THEN [is_negligible |-> TRUE, reason |-> "Very small percentage difference",
                  pct_num |-> pn, pct_den |-> pd]
            ELSE IF PctAtMostOne(pn, pd) /\ IsLargeDataset(domo_count, snowflake_count)
            THEN [is_negligible |-> TRUE,
                  reason |-> "Small percentage difference for large dataset",
                  pct_num |-> pn, pct_den |-> pd]
            ELSE [is_negligible |-> FALSE, reason |-> "Significant difference",
                  pct_num |-> pn, pct_den |-> pd]

RowCountBases == {0, 1, 10, 11, 50, 65, 1000, 2000, 9999, 10000, 11000, 100000}

RowCountDiffs == (0..MaxSmallDiff) \cup {15, 90, 99, 100, 101, 110, 1000, 1001}

RowCountPairs ==
    {<<b, b + d>> : b \in RowCountBases, d \in RowCountDiffs}
    \cup {<<b + d, b>> : b \in RowCountBases, d \in RowCountDiffs}

InitRowCount ==
    /\ fn_name = "_analyze_row_count_difference"
    /\ \E pr \in RowCountPairs :
          fn_args = [domo_count |-> pr[1], snowflake_count |-> pr[2]]
    /\ fn_ret = <<>>
    /\ BatchIdle
    /\ CompareIdle

ApplyAnalyzeRowCount ==
    /\ fn_name = "_analyze_row_count_difference"
    /\ fn_ret = <<>>
    /\ fn_ret' = <<analyze_row_count_difference(fn_args.domo_count, fn_args.snowflake_count)>>
    /\ UNCHANGED <<fn_name, fn_args, bp_vars, cmp_vars>>

NextRowCount == ApplyAnalyzeRowCount

SpecRowCount == InitRowCount /\ [][NextRowCount]_vars

\* the negligibility policy of the claim on a pair of counts, the percentage
\* being the absolute difference relative to the larger count
PolicyNegligible(a, b) ==
    LET diff == Abs(b - a)
        larger == Max(a, b)
    IN \/ diff <= 10
       \/ 1000 * diff <= larger
       \/ (100 * diff <= larger /\ larger >= 10000)

AnalyzeApplied == fn_name = "_analyze_row_count_difference" /\ fn_ret # <<>>

\* C8 (as claimed): for every pair of counts is_negligible is true exactly when
\* the absolute difference is at most 10 rows, or the percentage is at most
\* 0.1%, or it is at most 1.0% and the larger count is at least 10,000.
C8_AsClaimed ==
    AnalyzeApplied =>
        (fn_ret[1].is_negligible
            <=> PolicyNegligible(fn_args.domo_count, fn_args.snowflake_count))

\* C8 (amended): the policy decides is_negligible for every pair of counts that
\* are both non-zero or both zero; when exactly one count is zero the result is
\* not negligible, whatever the difference.
C8_Amended ==
    AnalyzeApplied =>
        LET a == fn_args.domo_count
            b == fn_args.snowflake_count
        IN IF (a = 0) # (b = 0)
           THEN ~fn_ret[1].is_negligible
           ELSE fn_ret[1].is_negligible <=> PolicyNegligible(a, b)

\* C8 witness: 1.0% of a 10,100-row dataset, negligible only by the third rule
C8_Witness ==
    /\ AnalyzeApplied
    /\ fn_args = [domo_count |-> 10000, snowflake_count |-> 10101]
    /\ fn_ret[1].is_negligible

\* C9 (as claimed): (100000, 100090) is negligible and reported as 0.09%;
\* (50, 65) is not negligible and reported as 30% (each to the shown precision).
C9_AsClaimed ==
    AnalyzeApplied =>
        LET r == fn_ret[1] IN
        /\ fn_args = [domo_count |-> 100000, snowflake_count |-> 100090] =>
              /\ r.is_negligible
              /\ 1000 * r.pct_num >= 85 * r.pct_den
              /\ 1000 * r.pct_num < 95 * r.pct_den
        /\ fn_args = [domo_count |-> 50, snowflake_count |-> 65] =>
              /\ ~r.is_negligible
              /\ 10 * r.pct_num >= 295 * r.pct_den
              /\ 10 * r.pct_num < 305 * r.pct_den

\* C9 (amended): (100000, 100090) is negligible and its reported percentage is
\* 90/100090 of 100, i.e. 0.090%; (50, 65) is not negligible and its reported
\* percentage is 15/65 of 100, i.e. 23.08%: the base is the larger count.
C9_Amended ==
    AnalyzeApplied =>
        LET r == fn_ret[1] IN
        /\ fn_args = [domo_count |-> 100000, snowflake_count |-> 100090] =>
              /\ r.is_negligible
              /\ r.pct_num * 100090 = 9000 * r.pct_den
              /\ 10000 * r.pct_num >= 895 * r.pct_den
              /\ 10000 * r.pct_num < 905 * r.pct_den
        /\ fn_args = [domo_count |-> 50, snowflake_count |-> 65] =>
              /\ ~r.is_negligible
              /\ r.pct_num * 65 = 1500 * r.pct_den
              /\ 1000 * r.pct_num >= 23075 * r.pct_den
              /\ 1000 * r.pct_num < 23085 * r.pct_den

\* C9 witness: the analysis of the counts (50, 65)
C9_Witness ==
    /\ AnalyzeApplied
    /\ fn_args = [domo_count |-> 50, snowflake_count |-> 65]
    /\ ~fn_ret[1].is_negligible

(***************************************************************************)
(* utils.common.transform_column_name.  A column name is a sequence of     *)
(* one-character strings.                                                  *)
(***************************************************************************)
LowerLetters == <<"a","b","c","d","e","f","g","h","i","j","k","l","m",
                  "n","o","p","q","r","s","t","u","v","w","x","y","z">>

UpperLetters == <<"A","B","C","D","E","F","G","H","I","J","K","L","M",
                  "N","O","P","Q","R","S","T","U","V","W","X","Y","Z">>

Digits == {"0","1","2","3","4","5","6","7","8","9"}

Range(f) == {f[i] : i \in DOMAIN f}

\* str.lower() on one character
LowerChar(c) ==
    IF c \in Range(UpperLetters)
    THEN LowerLetters[CHOOSE i \in DOMAIN UpperLetters : UpperLetters[i] = c]
    ELSE c

\* str.upper() on one character
UpperChar(c) ==
    IF c \in Range(LowerLetters)
    THEN UpperLetters[CHOOSE i \in DOMAIN LowerLetters : LowerLetters[i] = c]
    ELSE c

MapChars(F(_), str) == [i \in DOMAIN str |-> F(str[i])]

\* \w of the regular expressions
IsWordChar(c) == c \in Range(LowerLetters) \cup Range(UpperLetters) \cup Digits \cup {"_"}

\* \s of the regular expressions
IsSpaceChar(c) == c \in {" ", "\t", "\n"}

RECURSIVE SkipSpaces(_, _)
\* the first position at or after i that does not hold a whitespace character
SkipSpaces(str, i) ==
    IF i <= Len(str) /\ IsSpaceChar(str[i]) THEN SkipSpaces(str, i + 1) ELSE i

\* \bno\. matches at position i
MatchesNoDot(str, i) ==
    /\ i + 2 <= Len(str)
    /\ str[i] = "n" /\ str[i + 1] = "o" /\ str[i + 2] = "."
    /\ (i = 1 \/ ~IsWordChar(str[i - 1]))

RECURSIVE SubNoDot(_, _)
\* re.sub(r"\bno\.\s*", "number_", name), scanning from position i
SubNoDot(str, i) ==
    IF i > Len(str) THEN <<>>
    ELSE IF MatchesNoDot(str, i)
    THEN <<"n","u","m","b","e","r","_">> \o SubNoDot(str, SkipSpaces(str, i + 3))
    ELSE <<str[i]>> \o SubNoDot(str, i + 1)

\* the chained str.replace calls of lines 72-77 on one character
ReplaceChar(c) ==
    IF c = "#" THEN <<"n","u","m","b","e","r">>
    ELSE IF c = "&" THEN <<"a","n","d">>
    ELSE IF c \in {"(", ")", " ", "-", "/", ".", "?"} THEN <<"_">>
    ELSE <<c>>

RECURSIVE ReplaceAll(_)
ReplaceAll(str) ==
    IF str = <<>> THEN <<>> ELSE ReplaceChar(Head(str)) \o ReplaceAll(Tail(str))

RECURSIVE CollapseUnderscores_pairs(_)
RECURSIVE CollapseUnderscores(_)
\* mutant of CollapseUnderscores: every pair "__" is replaced once, left to right
CollapseUnderscores_pairs(str) ==
    IF Len(str) < 2 THEN str
    ELSE IF str[1] = "_" /\ str[2] = "_"
    THEN <<"_">> \o CollapseUnderscores_pairs(Tail(Tail(str)))
    ELSE <<str[1]>> \o CollapseUnderscores_pairs(Tail(str))

\* re.sub(r"_+", "_", name)
CollapseUnderscores(str) ==
    IF Len(str) < 2 THEN str
    ELSE IF str[1] = "_" /\ str[2] = "_" THEN CollapseUnderscores(Tail(str))
    ELSE <<str[1]>> \o CollapseUnderscores(Tail(str))

RECURSIVE StripUnderscores(_)
\* str.strip("_")
StripUnderscores(str) ==
    IF str = <<>> THEN str
    ELSE IF Head(str) = "_" THEN StripUnderscores(Tail(str))
    ELSE IF str[Len(str)] = "_" THEN StripUnderscores(SubSeq(str, 1, Len(str) - 1))
    ELSE str

transform_column_name(column_name) ==
    MapChars(UpperChar,
        StripUnderscores(CollapseUnderscores(ReplaceAll(
            SubNoDot(MapChars(LowerChar, column_name), 1)))))

(***************************************************************************)
(* SchemaComparator.compare_schemas                                        *)
(***************************************************************************)
\* dict[k] = v
Put(m, k, v) == [x \in (DOMAIN m) \cup {k} |-> IF x = k THEN v ELSE m[x]]

EmptyDict == <<>>

\* native column names used by the schemas of the model
N_Site_Code == <<"S","i","t","e"," ","C","o","d","e">>

N_SITE_CODE == <<"S","I","T","E","_","C","O","D","E">>

N_id == <<"i","d">>

N_ID == <<"I","D">>

N_Amount == <<"A","m","o","u","n","t">>

\* DomoHandler.get_dataset_schema: DomoDatasetManager returns a list of
\* {name, type, description} records, [] after an error; compare_schemas
\* reads the value as a dict {"columns": [...]}, the shape of utils.common.Schema
DomoSchemaList(cols) == [kind |-> "list", columns |-> cols]

DomoSchemaDict(cols) == [kind |-> "dict", columns |-> cols]

Col(name, type) == [name |-> name, type |-> type]

DomoSchemaOutcomes ==
    { [kind |-> "raise", columns |-> <<>>],
      DomoSchemaList(<<>>),
      DomoSchemaList(<<Col(N_Site_Code, "STRING"), Col(N_id, "LONG")>>),
      DomoSchemaDict(<<Col(N_Site_Code, "STRING"), Col(N_id, "LONG")>>) }

\* SnowflakeHandler.get_table_columns: a list of {name, type, nullable,
\* default, position} records, [] after an error
SfColumnsOutcomes ==
    { [kind |-> "raise", columns |-> <<>>],
      [kind |-> "list", columns |-> <<>>],
      [kind |-> "list", columns |-> <<Col(N_SITE_CODE, "TEXT"), Col(N_ID, "NUMBER")>>],
      [kind |-> "list", columns |-> <<Col(N_ID, "NUMBER"), Col(N_Amount, "FLOAT")>>] }

Names(cols) == [i \in DOMAIN cols |-> cols[i].name]

\* c.get("data_type", ""): the records of get_table_columns have no such key
SfDataType(c) == IF "data_type" \in DOMAIN c THEN c.data_type ELSE ""

text_like == {"STRING", "TEXT", "CHAR", "VARCHAR"}

int_like == {"LONG", "INTEGER", "INT", "BIGINT", "SMALLINT", "NUMBER"}

float_like == {"DOUBLE", "FLOAT", "REAL", "DECIMAL", "NUMERIC"}

bool_like == {"BOOLEAN", "BOOL"}

dt_like == {"DATETIME", "TIMESTAMP", "DATE", "TIME"}

\* _types_compatible: True inside a group, and True by default
types_compatible(d, t) ==
    IF \E g \in {text_like, int_like, float_like, bool_like, dt_like} : d \in g /\ t \in g
    THEN TRUE
    ELSE TRUE

\* ColumnMatcher.create_column_mapping: exact native-name matches only
create_column_mapping(domo_columns, snowflake_columns) ==
    [d \in {c \in Range(domo_columns) : c \in Range(snowflake_columns)} |->
        [snowflake_column |-> d, confidence |-> 10, auto_apply |-> TRUE,
         match_type |-> "exact"]]

RECURSIVE ExactOriginalColumns(_, _)
\* {transform_column_name(col): col for col in domo_columns_original}
ExactOriginalColumns(cols, m) ==
    IF cols = <<>> THEN m
    ELSE ExactOriginalColumns(Tail(cols), Put(m, transform_column_name(Head(cols)), Head(cols)))

\* lines 66-76: the name a source column is compared under in intelligent mode
IntelligentName(mapping, domo_col) ==
    IF domo_col \in DOMAIN mapping
    THEN mapping[domo_col].snowflake_column
    ELSE transform_column_name(domo_col)

RECURSIVE IntelligentOriginalColumns(_, _, _)
\* lines 65-76: entries are added to the dict kept from earlier calls
IntelligentOriginalColumns(cols, mapping, m) ==
    IF cols = <<>> THEN m
    ELSE IntelligentOriginalColumns(Tail(cols), mapping,
             Put(m, IntelligentName(mapping, Head(cols)), Head(cols)))

RECURSIVE TypeMap(_, _, _)
\* normalized name -> type, later columns overwriting earlier ones
TypeMap(cols, TypeOf(_), m) ==
    IF cols = <<>> THEN m
    ELSE TypeMap(Tail(cols), TypeOf,
                 Put(m, transform_column_name(Head(cols).name), TypeOf(Head(cols))))

DomoType(c) == c.type

DictGet(m, k, default) == IF k \in DOMAIN m THEN m[k] ELSE default

\* _get_error_schema_result
error_schema_result ==
    [domo_columns |-> 0, snowflake_columns |-> 0, common_columns |-> {},
     missing_in_snowflake |-> {}, extra_in_snowflake |-> {}, type_mismatches |-> {},
     schema_match |-> FALSE, error |-> TRUE]

\* mutant of schema_match_of: type mismatches and extra columns are ignored
schema_match_of_missing_only(missing_in_sf, extra_in_sf, type_mismatches) ==
    missing_in_sf = {}

\* line 117
schema_match_of(missing_in_sf, extra_in_sf, type_mismatches) ==
    missing_in_sf = {} /\ extra_in_sf = {} /\ type_mismatches = {}

\* compare_schemas: the returned dict together with the two attributes of the
\* SchemaComparator the call leaves behind
compare_schemas(domo_out, sf_out, use_intelligent_mapping, old_original, old_intelligent) ==
    LET failed == [result |-> error_schema_result,
                   original |-> old_original, intelligent |-> old_intelligent]
    IN IF domo_out.kind = "raise" THEN failed
       \* a non-empty list has no .get: AttributeError at line 47
       ELSE IF domo_out.kind = "list" /\ domo_out.columns # <<>> THEN failed
       ELSE IF sf_out.kind = "raise" THEN failed
       ELSE
         LET domo_cols == domo_out.columns
             sf_cols == sf_out.columns
             domo_columns_original == Names(domo_cols)
             snowflake_columns_original == Names(sf_cols)
             mapping == IF use_intelligent_mapping
                        THEN create_column_mapping(domo_columns_original,
                                                   snowflake_columns_original)
                        ELSE old_intelligent
             original == IF use_intelligent_mapping
                         THEN IntelligentOriginalColumns(domo_columns_original, mapping,
                                                         old_original)
                         ELSE ExactOriginalColumns(domo_columns_original, EmptyDict)
             domo_set == IF use_intelligent_mapping
                         THEN {IntelligentName(mapping, c) : c \in Range(domo_columns_original)}
                         ELSE DOMAIN original
             sf_set == {transform_column_name(c) : c \in Range(snowflake_columns_original)}
             common_cols == domo_set \cap sf_set
             missing_in_sf == domo_set \ sf_set
             extra_in_sf == sf_set \ domo_set
             sf_type_map == TypeMap(sf_cols, SfDataType, EmptyDict)
             domo_type_map == TypeMap(domo_cols, DomoType, EmptyDict)
             type_mismatches ==
                 {col \in common_cols :
                     LET domo_t == DictGet(domo_type_map, col, "")
                         sf_t == DictGet(sf_type_map, col, "")
                     IN domo_t # "" /\ sf_t # "" /\ ~types_compatible(domo_t, sf_t)}
         IN [result |->
                [domo_columns |-> Len(domo_columns_original),
                 snowflake_columns |-> Len(snowflake_columns_original),
                 common_columns |-> common_cols,
                 missing_in_snowflake |-> missing_in_sf,
                 extra_in_snowflake |-> extra_in_sf,
                 type_mismatches |-> type_mismatches,
                 schema_match |-> schema_match_of(missing_in_sf, extra_in_sf, type_mismatches),
                 error |-> FALSE],
             original |-> original,
             intelligent |-> mapping]

(***************************************************************************)
(* RowCountComparator.compare_row_counts                                   *)
(***************************************************************************)
CountOut(c) == [kind |-> "count", n |-> c]

\* row counts the two systems report in SpecCompare
DomoCountOutcomes == {Raise, DriverError, CountOut(50)}

SfCountOutcomes == {Raise, DriverError, CountOut(50), CountOut(55), CountOut(100)}

\* lines 35-41 and 44-53: a count that cannot be read becomes 0
CountOrZero(o) == IF o.kind = "count" THEN o.n ELSE 0

compare_row_counts(domo_out, sf_out) ==
    LET domo_count == CountOrZero(domo_out)
        sf_count == CountOrZero(sf_out)
    IN [domo_rows |-> domo_count,
        snowflake_rows |-> sf_count,
        difference |-> sf_count - domo_count,
        match |-> domo_count = sf_count,
        negligible_analysis |-> analyze_row_count_difference(domo_count, sf_count)]

(***************************************************************************)
(* DataComparator.compare_data_samples and the SmartSampler                *)
(***************************************************************************)
\* mutant of add_error: the error is logged but not recorded
add_error_dropped(errors, section, error) == errors

\* DataComparator._add_error / DatasetComparator.add_error
add_error(errors, section, error) == Append(errors, [section |-> section, error |-> error])

\* _get_error_data_result
error_data_result(size, domo_rows, sf_rows) ==
    [sample_size |-> size, domo_sample_rows |-> domo_rows, snowflake_sample_rows |-> sf_rows,
     data_match |-> FALSE, error |-> TRUE, sampling_method |-> "none"]

\* line 130: {'error': f"Ordered sampling failed: ..."}; absent keys read by
\* .get() with their defaults
ordered_failed_result ==
    [sample_size |-> 0, domo_sample_rows |-> 0, snowflake_sample_rows |-> 0,
     data_match |-> FALSE, error |-> TRUE, sampling_method |-> "none"]

\* mutant of first_sampling_method: random sampling is always tried first
first_sampling_method_random(sampling_method) == "random"

\* line 120: 'ordered' goes straight to ordered sampling, anything else is random
first_sampling_method(sampling_method) ==
    IF sampling_method = "ordered" THEN "ordered" ELSE "random"

\* largest abstract generator state besides the seeded ones
MaxRngState == 3

\* the state of the generator right after random.seed(42)
Seed42State == 42

RngStates == (0..MaxRngState) \cup {Seed42State}

\* mutant of seed_state: the seed call leaves the generator as it was
seed_state_ignored(prev, a) == prev

\* random.seed(a): the new state is determined by a alone
seed_state(prev, a) == a

\* random.seed(42); random.sample(range(u), s) of CPython 3.11, tabulated for
\* 0 < s < u <= 10 and for the universes of SpecCompare
Sample42Table ==
    <<2, 1>> :> <<0>> @@
    <<3, 1>> :> <<2>> @@
    <<3, 2>> :> <<2, 0>> @@
    <<4, 1>> :> <<0>> @@
    <<4, 2>> :> <<0, 3>> @@
    <<4, 3>> :> <<0, 3, 1>> @@
    <<5, 1>> :> <<0>> @@
    <<5, 2>> :> <<0, 4>> @@
    <<5, 3>> :> <<0, 4, 2>> @@
    <<5, 4>> :> <<0, 4, 2, 1>> @@
    <<6, 1>> :> <<5>> @@
    <<6, 2>> :> <<5, 0>> @@
    <<6, 3>> :> <<5, 0, 4>> @@
    <<6, 4>> :> <<5, 0, 4, 2>> @@
    <<6, 5>> :> <<5, 0, 4, 2, 1>> @@
    <<7, 1>> :> <<5>> @@
    <<7, 2>> :> <<5, 0>> @@
    <<7, 3>> :> <<5, 0, 6>> @@
    <<7, 4>> :> <<5, 0, 6, 2>> @@
    <<7, 5>> :> <<5, 0, 6, 2, 4>> @@
    <<7, 6>> :> <<5, 0, 6, 2, 4, 3>> @@
    <<8, 1>> :> <<1>> @@
    <<8, 2>> :> <<1, 0>> @@
    <<8, 3>> :> <<1, 0, 5>> @@
    <<8, 4>> :> <<1, 0, 5, 2>> @@
    <<8, 5>> :> <<1, 0, 5, 2, 7>> @@
    <<8, 6>> :> <<1, 0, 5, 2, 7, 6>> @@
    <<8, 7>> :> <<1, 0, 5, 2, 7, 6, 4>> @@
    <<9, 1>> :> <<1>> @@
    <<9, 2>> :> <<1, 0>> @@
    <<9, 3>> :> <<1, 0, 5>> @@
    <<9, 4>> :> <<1, 0, 5, 2>> @@
    <<9, 5>> :> <<1, 0, 5, 2, 8>> @@
    <<9, 6>> :> <<1, 0, 5, 2, 8, 4>> @@
    <<9, 7>> :> <<1, 0, 5, 2, 8, 4, 7>> @@
    <<9, 8>> :> <<1, 0, 5, 2, 8, 4, 7, 6>> @@
    <<10, 1>> :> <<1>> @@
    <<10, 2>> :> <<1, 0>> @@
    <<10, 3>> :> <<1, 0, 4>> @@
    <<10, 4>> :> <<1, 0, 4, 9>> @@
    <<10, 5>> :> <<1, 0, 4, 9, 6>> @@
    <<10, 6>> :> <<1, 0, 4, 9, 6, 5>> @@
    <<10, 7>> :> <<1, 0, 4, 9, 6, 5, 8>> @@
    <<10, 8>> :> <<1, 0, 4, 9, 6, 5, 8, 2>> @@
    <<10, 9>> :> <<1, 0, 4, 9, 6, 5, 8, 2, 3>> @@
    <<51, 1>> :> <<40>> @@
    <<52, 1>> :> <<40>>

random_sample_42(u, s) == IF s = 0 THEN <<>> ELSE Sample42Table[<<u, s>>]

\* random.sample(range(u), s) drawn in generator state st: the tabulated draw
\* in the state seeded with 42, another choice of s distinct positions in
\* every other state
random_sample(st, u, s) ==
    IF st = Seed42State THEN random_sample_42(u, s)
    ELSE [j \in 1..s |-> (random_sample_42(u, s)[j] + st + 1) % u]

\* the generator after a draw of s positions
after_sample(st, s) == IF s = 0 THEN st ELSE (st + s) % (MaxRngState + 1)

\* mutant of iloc: the 0-based positions are read as 1-based ones
iloc_one_based(keys, sampled_indices) ==
    [j \in DOMAIN sampled_indices |-> keys[Max(sampled_indices[j], 1)]]

\* all_keys_df.iloc[sampled_indices].reset_index(drop=True)
iloc(keys, sampled_indices) ==
    [j \in DOMAIN sampled_indices |-> keys[sampled_indices[j] + 1]]

\* lines 90-103 of get_smart_random_samples: the sample and the generator state left
select_sample(keys, size, st) ==
    IF Len(keys) <= size THEN [sample |-> keys, rng |-> st]
    ELSE LET seeded == seed_state(st, 42)
             sampled_indices == random_sample(seeded, Len(keys), size)
         IN [sample |-> iloc(keys, sampled_indices), rng |-> after_sample(seeded, size)]

\* line 206 of dataset_comparator.py onwards: overall_match
overall_match_of(schema, row_count, data) ==
    IF ~schema.error /\ ~data.error
    THEN LET row_count_ok == row_count.match \/ row_count.negligible_analysis.is_negligible
         IN schema.schema_match /\ row_count_ok /\ data.data_match
    ELSE FALSE

\* lines 216-228: the report built at the end of generate_report
build_report(schema, row_count, data, errors, data_errors) ==
    [kind |-> "comparison",
     overall_match |-> overall_match_of(schema, row_count, data),
     schema_comparison |-> schema,
     row_count_comparison |-> row_count,
     data_comparison |-> data,
     errors |-> errors \o data_errors]

\* ReportGenerator.get_connection_error_report
connection_error_report ==
    [kind |-> "connection",
     overall_match |-> FALSE,
     schema_comparison |-> <<>>,
     row_count_comparison |-> <<>>,
     data_comparison |-> <<>>,
     errors |-> <<[section |-> "Connection", error |-> "Failed to setup connections"]>>]

SamplingMethods == {"random", "ordered"}

\* sample_size argument of generate_report: <<>> is None
SampleSizeArgs == {<<>>, <<1>>}

\* the count the source reports to compare_data_samples
TotalRowOutcomes == {Raise, DriverError, CountOut(max_batch_size + 1)}

\* sizes of the key universe the source returns
KeyUniverseOutcomes == {Raise, DriverError, RowsOut(0), RowsOut(1), RowsOut(max_batch_size + 1)}

\* outcomes of one row query inside a comparison
CompareQueryOutcomes == {Raise, DriverError, RowsOut(0), RowsOut(1)}

DatacompyOutcomes == {"raise", "match", "differ"}

(***************************************************************************)
(* generate_report, lines 166-174: errors cleared, connections set up.     *)
(***************************************************************************)
GenerateReportStart(setup_ok) ==
    /\ gr_pc = "start"
    /\ self_errors' = <<>>
    /\ IF connected \/ setup_ok
       THEN /\ connected' = TRUE
            /\ gr_pc' = "schema"
            /\ UNCHANGED report
       ELSE /\ gr_pc' = "report"
            /\ report' = connection_error_report
            /\ UNCHANGED connected
    /\ UNCHANGED <<gr_args, dc_errors, domo_original_columns, intelligent_mapping,
                   schema_comparison, row_count_comparison, sample_size,
                   actual_sampling_method, sampler_calls, random_error, ordered_error, all_keys_df,
                   sample_frames, data_comparison>>
    /\ UNCHANGED <<bp_vars, fn_vars, rng_state, sample_runs>>

\* generate_report, lines 177-179
CompareSchemas(domo_out, sf_out) ==
    /\ gr_pc = "schema"
    /\ LET r == compare_schemas(domo_out, sf_out, gr_args.use_intelligent_mapping,
                                domo_original_columns, intelligent_mapping)
       IN /\ schema_comparison' = r.result
          /\ domo_original_columns' = r.original
          /\ intelligent_mapping' = r.intelligent
    /\ gr_pc' = "row_count"
    /\ UNCHANGED <<gr_args, connected, self_errors, dc_errors, row_count_comparison,
                   sample_size, actual_sampling_method, sampler_calls, random_error,
                   ordered_error, all_keys_df, sample_frames, data_comparison, report>>
    /\ UNCHANGED <<bp_vars, fn_vars, rng_state, sample_runs>>

\* generate_report, lines 181-183
CompareRowCounts(domo_out, sf_out) ==
    /\ gr_pc = "row_count"
    /\ row_count_comparison' = compare_row_counts(domo_out, sf_out)
    /\ gr_pc' = "total_rows"
    /\ UNCHANGED <<gr_args, connected, self_errors, dc_errors, domo_original_columns,
                   intelligent_mapping, schema_comparison, sample_size,
                   actual_sampling_method, sampler_calls, random_error, ordered_error, all_keys_df,
                   sample_frames, data_comparison, report>>
    /\ UNCHANGED <<bp_vars, fn_vars, rng_state, sample_runs>>

\* process_batches is entered with the sample: the state ProcessBatchesCalled(keys)
CallProcessBatches(keys) ==
    /\ bp_pc' = "build"
    /\ sampled_keys_df' = keys
    /\ bp_i' = 0
    /\ current_batch_num' = 0
    /\ batch_keys_df' = <<>>
    /\ domo_batch_df' = <<>>
    /\ domo_dfs' = <<>>
    /\ sf_dfs' = <<>>
    /\ bp_result' = <<>>
    /\ bp_error' = <<>>
    /\ query_log' = <<>>
    /\ batch_calls' = <<>>

\* data_comparator.py lines 140-149: random sampling failed with exception e,
\* get_ordered_samples is called as the fallback
FallBackToOrdered(e) ==
    /\ random_error' = e
    /\ actual_sampling_method' = "Ordered Sampling"
    /\ sampler_calls' = Append(sampler_calls, "ordered")
    /\ gr_pc' = "ordered_domo"

\* compare_data_samples returns data and generate_report builds the report
\* from it (dataset_comparator.py lines 205-233)
ReturnData(data, data_errors) ==
    /\ data_comparison' = data
    /\ dc_errors' = data_errors
    /\ report' = build_report(schema_comparison, row_count_comparison, data,
                              self_errors, data_errors)
    /\ gr_pc' = "report"

(***************************************************************************)
(* compare_data_samples, lines 104-133: the row-count query on the source,  *)
(* the sample size, and the call of the first sampling method.             *)
(***************************************************************************)
CountQuery(o) ==
    /\ gr_pc = "total_rows"
    /\ LET arg == gr_args.sample_size
           total_domo_rows == IF o.kind = "count" THEN o.n ELSE 0
           size == IF o.kind = "raise"
                   THEN (IF arg # <<>> /\ arg[1] # 0 THEN arg[1] ELSE 1000)
                   ELSE IF arg = <<>>
                        THEN calculate_sample_size(total_domo_rows, 95, default_margin_pct)
                        ELSE arg[1]
           first == first_sampling_method(gr_args.sampling_method)
       IN /\ sample_size' = size
          /\ dc_errors' = IF o.kind = "raise"
                          THEN add_error(dc_errors, "Sample Size Calculation",
                                         "Could not get total row count")
                          ELSE dc_errors
          /\ sampler_calls' = Append(sampler_calls, first)
          /\ actual_sampling_method' = IF first = "ordered" THEN "Ordered Sampling"
                                       ELSE "Random Sampling"
          /\ gr_pc' = IF first = "ordered" THEN "ordered_domo" ELSE "keys"
    /\ UNCHANGED <<gr_args, connected, self_errors, domo_original_columns,
                   intelligent_mapping, schema_comparison, row_count_comparison,
                   random_error, ordered_error, all_keys_df, sample_frames, data_comparison, report>>
    /\ UNCHANGED <<bp_vars, fn_vars, rng_state, sample_runs>>

(***************************************************************************)
(* get_smart_random_samples, lines 85-110: the key universe is fetched,    *)
(* the sample drawn and process_batches called.                            *)
(***************************************************************************)
KeysQuery(o) ==
    /\ gr_pc = "keys"
    /\ IF o.kind # "rows" \/ o.n = 0
       THEN /\ FallBackToOrdered(IF o.kind = "raise"
                                 THEN <<"Not authenticated">>
                                 ELSE <<"Could not retrieve unique keys from Domo dataset">>)
            /\ UNCHANGED <<all_keys_df, bp_vars, rng_state, sample_runs>>
       ELSE LET keys == [j \in 1..o.n |-> j]
            IN /\ all_keys_df' = keys
               /\ LET sel == select_sample(keys, sample_size, rng_state)
                  IN /\ CallProcessBatches(sel.sample)
                     /\ rng_state' = sel.rng
                     /\ sample_runs' = Append(sample_runs, sel.sample)
               /\ gr_pc' = "batches"
               /\ UNCHANGED <<random_error, actual_sampling_method, sampler_calls>>
    /\ UNCHANGED <<gr_args, connected, self_errors, dc_errors, domo_original_columns,
                   intelligent_mapping, schema_comparison, row_count_comparison,
                   sample_size, ordered_error, sample_frames, data_comparison, report>>
    /\ UNCHANGED fn_vars

\* get_smart_random_samples, lines 108-124, and its caller: process_batches
\* has returned the two frames or raised
BatchesReturn ==
    /\ gr_pc = "batches"
    /\ bp_pc \in {"returned", "raised"}
    /\ IF bp_pc = "returned"
       THEN /\ sample_frames' = bp_result
            /\ gr_pc' = "datacompy"
            /\ UNCHANGED <<random_error, actual_sampling_method, sampler_calls>>
       ELSE /\ FallBackToOrdered(bp_error)
            /\ UNCHANGED sample_frames
    /\ UNCHANGED <<gr_args, connected, self_errors, dc_errors, domo_original_columns,
                   intelligent_mapping, schema_comparison, row_count_comparison,
                   sample_size, ordered_error, all_keys_df, data_comparison, report>>
    /\ UNCHANGED <<bp_vars, fn_vars, rng_state, sample_runs>>

\* data_comparator.py lines 128-130 and 152-154: ordered sampling raised
OrderedFailed(e) ==
    /\ ordered_error' = e
    /\ IF first_sampling_method(gr_args.sampling_method) = "ordered"
       THEN ReturnData(ordered_failed_result,
                       add_error(dc_errors, "Data Sampling", "Ordered sampling failed"))
       ELSE ReturnData(error_data_result(sample_size, 0, 0),
                       add_error(dc_errors, "Sample Extraction",
                                 "Both smart and fallback sampling failed"))

\* get_ordered_samples, lines 154-166: ORDER BY ... LIMIT sample_size on the source
OrderedDomoQuery(o) ==
    /\ gr_pc = "ordered_domo"
    /\ o.kind = "rows" => o.n <= sample_size
    /\ IF o.kind # "rows" \/ o.n = 0
       THEN /\ OrderedFailed(IF o.kind = "raise" THEN <<"Not authenticated">>
                              ELSE <<"No data returned from Domo">>)
            /\ UNCHANGED sample_frames
       ELSE /\ sample_frames' = <<Rows("domo", 0, o.n), <<>>>>
            /\ gr_pc' = "ordered_sf"
            /\ UNCHANGED <<ordered_error, dc_errors, data_comparison, report>>
    /\ UNCHANGED <<gr_args, connected, self_errors, domo_original_columns,
                   intelligent_mapping, schema_comparison, row_count_comparison,
                   sample_size, actual_sampling_method, sampler_calls, random_error,
                   all_keys_df>>
    /\ UNCHANGED <<bp_vars, fn_vars, rng_state, sample_runs>>

\* get_ordered_samples, lines 168-177: the same query on the warehouse
OrderedSfQuery(o) ==
    /\ gr_pc = "ordered_sf"
    /\ o.kind = "rows" => o.n <= sample_size
    /\ IF o.kind # "rows" \/ o.n = 0
       THEN /\ OrderedFailed(IF o.kind = "raise" THEN <<"Not connected">>
                              ELSE <<"No data returned from Snowflake">>)
            /\ UNCHANGED sample_frames
       ELSE /\ sample_frames' = <<sample_frames[1], Rows("sf", 0, o.n)>>
            /\ gr_pc' = "datacompy"
            /\ UNCHANGED <<ordered_error, dc_errors, data_comparison, report>>
    /\ UNCHANGED <<gr_args, connected, self_errors, domo_original_columns,
                   intelligent_mapping, schema_comparison, row_count_comparison,
                   sample_size, actual_sampling_method, sampler_calls, random_error,
                   all_keys_df>>
    /\ UNCHANGED <<bp_vars, fn_vars, rng_state, sample_runs>>

(***************************************************************************)
(* compare_data_samples, lines 198-311: datacompy compares the two frames; *)
(* frames of different length cannot match.                                *)
(***************************************************************************)
Datacompy(o) ==
    /\ gr_pc = "datacompy"
    /\ o = "match" => Len(sample_frames[1]) = Len(sample_frames[2])
    /\ IF o = "raise"
       THEN ReturnData(error_data_result(sample_size, Len(sample_frames[1]),
                                         Len(sample_frames[2])),
                       add_error(dc_errors, "Data Comparison", "Error using datacompy"))
       ELSE ReturnData([sample_size |-> sample_size,
                        domo_sample_rows |-> Len(sample_frames[1]),
                        snowflake_sample_rows |-> Len(sample_frames[2]),
                        data_match |-> (o = "match"),
                        error |-> FALSE,
                        sampling_method |-> actual_sampling_method],
                       dc_errors)
    /\ UNCHANGED <<gr_args, connected, self_errors, domo_original_columns,
                   intelligent_mapping, schema_comparison, row_count_comparison,
                   sample_size, actual_sampling_method, sampler_calls, random_error,
                   ordered_error, all_keys_df, sample_frames>>
    /\ UNCHANGED <<bp_vars, fn_vars, rng_state, sample_runs>>

(***************************************************************************)
(* SpecCompare: one generate_report call on a freshly constructed          *)
(* DatasetComparator.                                                      *)
(***************************************************************************)
InitCompare ==
    /\ BatchIdle
    /\ FnIdle
    /\ gr_pc = "start"
    /\ gr_args \in [sampling_method : SamplingMethods,
                    sample_size : SampleSizeArgs,
                    use_intelligent_mapping : BOOLEAN]
    /\ connected = FALSE
    /\ self_errors = <<>>
    /\ dc_errors = <<>>
    /\ domo_original_columns = <<>>
    /\ intelligent_mapping = <<>>
    /\ schema_comparison = <<>>
    /\ row_count_comparison = <<>>
    /\ sample_size = 0
    /\ actual_sampling_method = "none"
    /\ sampler_calls = <<>>
    /\ random_error = <<>>
    /\ ordered_error = <<>>
    /\ all_keys_df = <<>>
    /\ rng_state = 0
    /\ sample_runs = <<>>
    /\ sample_frames = <<>>
    /\ data_comparison = <<>>
    /\ report = <<>>

NextCompare ==
    \/ \E ok \in BOOLEAN : GenerateReportStart(ok)
    \/ \E d \in DomoSchemaOutcomes, f \in SfColumnsOutcomes : CompareSchemas(d, f)
    \/ \E d \in DomoCountOutcomes, f \in SfCountOutcomes : CompareRowCounts(d, f)
    \/ \E o \in TotalRowOutcomes : CountQuery(o)
    \/ \E o \in KeyUniverseOutcomes : KeysQuery(o)
    \/ BuildWhereClauses /\ UNCHANGED fn_vars
    \/ \E o \in CompareQueryOutcomes : DomoQuery(o) /\ UNCHANGED fn_vars
    \/ \E o \in CompareQueryOutcomes : SfQuery(o) /\ UNCHANGED fn_vars
    \/ BatchesReturn
    \/ \E o \in CompareQueryOutcomes : OrderedDomoQuery(o)
    \/ \E o \in CompareQueryOutcomes : OrderedSfQuery(o)
    \/ \E o \in DatacompyOutcomes : Datacompy(o)

SpecCompare == InitCompare /\ [][NextCompare]_vars

(***************************************************************************)
(* Claims about generate_report (SpecCompare)                              *)
(***************************************************************************)
Reported == gr_pc = "report" /\ report.kind = "comparison"

\* the key universe could not be retrieved from the source
KeyUniverseUnavailable ==
    random_error = <<"Could not retrieve unique keys from Domo dataset">>

\* process_batches raised on its first (or only) batch
FirstBatchFailed ==
    /\ random_error # <<>>
    /\ random_error[1] \in {"FIRST BATCH FAILURE", "SINGLE BATCH FAILURE"}

\* both systems returned zero rows for some batch
BothEmptyInSomeBatch ==
    /\ Len(random_error) = 2
    /\ random_error[2] = "either Domo or Snowflake"

FatalCondition == KeyUniverseUnavailable \/ FirstBatchFailed \/ BothEmptyInSomeBatch

\* C5 (as stated): every fatal condition of a comparison (key universe
\* unavailable, first batch failed, both systems empty for some batch) yields a
\* report whose errors list is non-empty and whose overall_match is false.
C5_AsClaimed ==
    (Reported /\ FatalCondition)
    => (report.errors # <<>> /\ ~report.overall_match)

\* C5 (amended): a fatal condition of random sampling makes the caller fall
\* back to ordered sampling; the report has a non-empty errors list and
\* overall_match false when the ordered fallback failed as well, and when the
\* fallback succeeded the report is built from the ordered sample and the
\* fatal condition itself has added no entry to the errors list.
C5_Amended ==
    (Reported /\ FatalCondition)
    => /\ sampler_calls = <<"random", "ordered">>
       /\ ordered_error # <<>> =>
              /\ report.errors # <<>>
              /\ ~report.overall_match
              /\ report.data_comparison.error
       /\ ordered_error = <<>> =>
              /\ actual_sampling_method = "Ordered Sampling"
              /\ sample_frames[1] # <<>> /\ sample_frames[2] # <<>>
              /\ report.data_comparison.domo_sample_rows = Len(sample_frames[1])
              /\ report.data_comparison.snowflake_sample_rows = Len(sample_frames[2])
              /\ \A k \in DOMAIN report.errors :
                     report.errors[k].section \in {"Sample Size Calculation", "Data Comparison"}

\* a first batch with no rows from the warehouse and a failed ordered fallback
C5_Witness ==
    /\ Reported
    /\ FirstBatchFailed
    /\ ordered_error = <<"No data returned from Snowflake">>
    /\ Len(report.errors) = 1
    /\ ~report.overall_match

Count(seq, x) == Cardinality({k \in DOMAIN seq : seq[k] = x})

\* C6: within one comparison random sampling is attempted at most once and
\* ordered sampling at most once; a failed random sampling is followed by
\* exactly one ordered attempt, and when that fails too the result is an error
\* result with no further attempt; with method 'ordered' random sampling is
\* never attempted.
C6_SingleFallback ==
    /\ Count(sampler_calls, "random") <= 1
    /\ Count(sampler_calls, "ordered") <= 1
    /\ random_error # <<>> => sampler_calls = <<"random", "ordered">>
    /\ (gr_pc \in {"datacompy", "report"} /\ sampler_calls = <<"random", "ordered">>)
           => random_error # <<>>
    /\ (random_error # <<>> /\ ordered_error # <<>>)
           => /\ Reported
              /\ report.data_comparison.error
              /\ ~report.data_comparison.data_match
              /\ sampler_calls = <<"random", "ordered">>
    /\ (gr_args.sampling_method = "ordered")
           => /\ Count(sampler_calls, "random") = 0
              /\ random_error = <<>>
              /\ bp_pc = "idle"

\* random sampling failed in a later batch and the ordered fallback failed too
C6_Witness ==
    /\ Reported
    /\ sampler_calls = <<"random", "ordered">>
    /\ random_error # <<>>
    /\ ordered_error # <<>>
    /\ current_batch_num = 2
    /\ report.data_comparison.error

\* C7: overall_match is true exactly when the schema comparison has no
\* missing, no extra and no type-mismatched column, the row counts are equal
\* or their difference is negligible, and the data comparison found no
\* difference, neither comparison carrying an error flag; it is false whenever
\* the schema comparison or the data comparison carries an error flag.
C7_OverallMatch ==
    Reported =>
        /\ report.overall_match <=>
              /\ ~report.schema_comparison.error
              /\ ~report.data_comparison.error
              /\ report.schema_comparison.missing_in_snowflake = {}
              /\ report.schema_comparison.extra_in_snowflake = {}
              /\ report.schema_comparison.type_mismatches = {}
              /\ \/ report.row_count_comparison.domo_rows
                        = report.row_count_comparison.snowflake_rows
                 \/ report.row_count_comparison.negligible_analysis.is_negligible
              /\ report.data_comparison.data_match
        /\ (report.schema_comparison.error \/ report.data_comparison.error)
               => ~report.overall_match

\* a matching report whose row counts differ by a negligible amount
C7_Witness ==
    /\ Reported
    /\ report.overall_match
    /\ report.row_count_comparison.domo_rows # report.row_count_comparison.snowflake_rows
    /\ report.schema_comparison.common_columns # {}

(***************************************************************************)
(* SpecSampler: the key selection of get_smart_random_samples (lines       *)
(* 90-103) run repeatedly on one key universe, the generator of the random *)
(* module being used by other code in between.                             *)
(***************************************************************************)
\* largest key universe of SpecSampler
MaxUniverse == 8

\* largest number of key selections in one behaviour
MaxRuns == 3

\* the key in row j of the universe
KeyAt(j) == 100 + j

InitSampler ==
    /\ BatchIdle
    /\ FnIdle
    /\ gr_pc = "select"
    /\ gr_args = <<>>
    /\ connected = FALSE
    /\ self_errors = <<>>
    /\ dc_errors = <<>>
    /\ domo_original_columns = <<>>
    /\ intelligent_mapping = <<>>
    /\ schema_comparison = <<>>
    /\ row_count_comparison = <<>>
    /\ sample_size \in 0..(MaxUniverse + 1)
    /\ actual_sampling_method = "Random Sampling"
    /\ sampler_calls = <<>>
    /\ random_error = <<>>
    /\ ordered_error = <<>>
    /\ \E u \in 1..MaxUniverse : all_keys_df = [j \in 1..u |-> KeyAt(j)]
    /\ rng_state \in RngStates
    /\ sample_runs = <<>>
    /\ sample_frames = <<>>
    /\ data_comparison = <<>>
    /\ report = <<>>

sampler_frame == <<gr_pc, gr_args, connected, self_errors, dc_errors, domo_original_columns,
                   intelligent_mapping, schema_comparison, row_count_comparison, sample_size,
                   actual_sampling_method, sampler_calls, random_error, ordered_error,
                   all_keys_df, sample_frames, data_comparison, report>>

\* lines 90-105: one selection of the sample keys
SelectKeys ==
    /\ gr_pc = "select"
    /\ Len(sample_runs) < MaxRuns
    /\ LET sel == select_sample(all_keys_df, sample_size, rng_state)
       IN /\ sample_runs' = Append(sample_runs, sel.sample)
          /\ rng_state' = sel.rng
    /\ UNCHANGED <<sampler_frame, bp_vars, fn_vars>>

\* any other use of the shared generator: a draw, or a seed call of other code
OtherRandomUse(st) ==
    /\ gr_pc = "select"
    /\ st # rng_state
    /\ rng_state' = st
    /\ UNCHANGED <<sample_runs, sampler_frame, bp_vars, fn_vars>>

NextSampler ==
    \/ SelectKeys
    \/ \E st \in RngStates : OtherRandomUse(st)

SpecSampler == InitSampler /\ [][NextSampler]_vars

Keys(seq) == {seq[j] : j \in DOMAIN seq}

\* C11: for a fixed key universe and the fixed seed 42, all runs of the random
\* key selection choose the same sample, the same keys in the same order,
\* whatever state earlier uses left the generator in.
C11_SeededSelectionDeterministic ==
    gr_pc = "select" =>
        \A a, b \in DOMAIN sample_runs : sample_runs[a] = sample_runs[b]

\* two selections of a proper random sample of at least two keys
C11_Witness ==
    /\ gr_pc = "select"
    /\ Len(sample_runs) >= 2
    /\ Len(sample_runs[1]) >= 2
    /\ Len(sample_runs[1]) < Len(all_keys_df)
    /\ rng_state # Seed42State

\* C12: with u keys in the universe and sample_size s >= 0, the sample is the
\* whole universe in its order when u <= s, and otherwise s keys taken from s
\* distinct positions of the universe; its size is min(u, s), at most u.
C12_SampleSetSize ==
    gr_pc = "select" =>
        \A a \in DOMAIN sample_runs :
            LET r == sample_runs[a]
                u == Len(all_keys_df)
                s == sample_size
            IN /\ u <= s => r = all_keys_df
               /\ u > s => /\ Len(r) = s
                           /\ Keys(r) \subseteq Keys(all_keys_df)
                           /\ Cardinality(Keys(r)) = s
               /\ Len(r) = Min(u, s)
               /\ Len(r) <= u

\* a sample of 3 keys out of 8
C12_Witness ==
    /\ gr_pc = "select"
    /\ Len(all_keys_df) = 8
    /\ sample_size = 3
    /\ Len(sample_runs) >= 1
    /\ Len(sample_runs[1]) = 3

(***************************************************************************)
(* SpecNormalize: transform_column_name applied to a column name and then  *)
(* to its own result.                                                      *)
(***************************************************************************)
\* longest column name enumerated exhaustively
MaxNameLen == 4

\* characters that reach every branch of transform_column_name
NameAlphabet == {"n", "o", ".", "#", "&", " ", "_", "A", "$"}

N_Sales_Dollar == <<"S","a","l","e","s"," ","$">>

N_Product_Name == <<"P","r","o","d","u","c","t"," ","N","a","m","e">>

N_SALES == <<"S","A","L","E","S">>

N_PRODUCT_NAME == <<"P","R","O","D","U","C","T","_","N","A","M","E">>

N_Item_No_Dot == <<"I","t","e","m"," ","N","o","."," ","(","#",")">>

N_Cost_Net == <<"C","o","s","t"," ","-"," ","N","e","t">>

ColumnNameInputs ==
    UNION {[1..n -> NameAlphabet] : n \in 0..MaxNameLen}
    \cup {N_Sales_Dollar, N_Product_Name, N_Item_No_Dot, N_Cost_Net, N_Site_Code,
          N_SITE_CODE}

InitNormalize ==
    /\ fn_name = "transform_column_name"
    /\ fn_args \in ColumnNameInputs
    /\ fn_ret = <<>>
    /\ BatchIdle
    /\ CompareIdle

\* one more application: to the input first, then to the last result
ApplyTransform ==
    /\ fn_name = "transform_column_name"
    /\ Len(fn_ret) < 2
    /\ fn_ret' = Append(fn_ret, transform_column_name(
                                    IF fn_ret = <<>> THEN fn_args ELSE fn_ret[Len(fn_ret)]))
    /\ UNCHANGED <<fn_name, fn_args, bp_vars, cmp_vars>>

NextNormalize == ApplyTransform

SpecNormalize == InitNormalize /\ [][NextNormalize]_vars

\* C14: column normalization is idempotent: normalizing a normalized name
\* gives the same name.
C14_NormalizeIdempotent ==
    (fn_name = "transform_column_name" /\ Len(fn_ret) = 2) => fn_ret[2] = fn_ret[1]

\* "Item No. (#)" normalized twice: ITEM_NUMBER_NUMBER both times
C14_Witness ==
    /\ fn_name = "transform_column_name"
    /\ fn_args = N_Item_No_Dot
    /\ Len(fn_ret) = 2
    /\ fn_ret[1] = <<"I","T","E","M","_","N","U","M","B","E","R","_","N","U","M","B","E","R">>
    /\ fn_ret[2] = fn_ret[1]

\* C15: transform_column_name("Sales $") is "SALES" and
\* transform_column_name("Product Name") is "PRODUCT_NAME".
C15_DocumentedExamples ==
    (fn_name = "transform_column_name" /\ Len(fn_ret) >= 1) =>
        /\ fn_args = N_Sales_Dollar => fn_ret[1] = N_SALES
        /\ fn_args = N_Product_Name => fn_ret[1] = N_PRODUCT_NAME

(***************************************************************************)
(* QueryBuilder: the filters of one batch.  A key value is None/NaN, a     *)
(* string or an integer; text is a sequence of one-character strings.  A   *)
(* filter keeps the pieces the f-strings put together: the emitted column  *)
(* identifier and the emitted literals; the separators ", ", " AND ",      *)
(* " OR " and the parentheses are its structure.                           *)
(***************************************************************************)
NullValue == [t |-> "null", n |-> 0, s |-> <<>>]

StrValue(chars) == [t |-> "str", n |-> 0, s |-> chars]

NumValue(k) == [t |-> "num", n |-> k, s |-> <<>>]

DigitChars == <<"0","1","2","3","4","5","6","7","8","9">>

RECURSIVE IntToStr(_)
\* str(v) of a non-negative integer
IntToStr(k) ==
    IF k < 10 THEN <<DigitChars[k + 1]>>
    ELSE IntToStr(k \div 10) \o <<DigitChars[(k % 10) + 1]>>

\* str(v)
py_str(v) == IF v.t = "str" THEN v.s ELSE IntToStr(v.n)

\* pd.isna(value) or value is None
is_na(v) == v.t = "null"

RECURSIVE py_strip(_)
\* str.strip()
py_strip(str) ==
    IF str = <<>> THEN str
    ELSE IF IsSpaceChar(Head(str)) THEN py_strip(Tail(str))
    ELSE IF IsSpaceChar(str[Len(str)]) THEN py_strip(SubSeq(str, 1, Len(str) - 1))
    ELSE str

RECURSIVE double_quotes(_)
\* mutant of double_quotes: embedded quote characters are left alone
double_quotes_kept(str) == str

\* str(v).replace("'", "''")
double_quotes(str) ==
    IF str = <<>> THEN <<>>
    ELSE IF Head(str) = "'" THEN <<"'", "'">> \o double_quotes(Tail(str))
    ELSE <<Head(str)>> \o double_quotes(Tail(str))

\* f"'{escaped_val}'"
quoted_literal(str) == <<"'">> \o double_quotes(str) \o <<"'">>

\* mutant of escape_domo_column_name: the name is never quoted
escape_domo_column_name_never(column_name) == column_name

\* escape_domo_column_name, lines 34-36
escape_domo_column_name(column_name) ==
    IF \E i \in DOMAIN column_name : ~IsWordChar(column_name[i])
    THEN <<"\"">> \o column_name \o <<"\"">>
    ELSE column_name

\* position of the column in the frame, 0 when the frame has no such column
ColumnIndex(df, name) ==
    IF \E i \in DOMAIN df.columns : df.columns[i] = name
    THEN CHOOSE i \in DOMAIN df.columns : df.columns[i] = name
    ELSE 0

\* sampled_keys_df[col].dropna().tolist()
DropNaValues(df, c) ==
    LET column == [r \in DOMAIN df.rows |-> df.rows[r][c]]
        NotNa(v) == ~is_na(v)
    IN SelectSeq(column, NotNa)

\* lines 102-108 / 152-159: normalized key columns mapped back to Domo names
domo_key_columns_of(key_columns, domo_column_mapping) ==
    [i \in DOMAIN key_columns |-> DictGet(domo_column_mapping, key_columns[i], key_columns[i])]

FilterRaise(msg) == [kind |-> "raise", msg |-> msg, col |-> <<>>, values |-> <<>>, groups |-> <<>>]

InFilter(col, values) == [kind |-> "in", msg |-> "", col |-> col, values |-> values, groups |-> <<>>]

OrFilter(groups) == [kind |-> "or", msg |-> "", col |-> <<>>, values |-> <<>>, groups |-> groups]

IsNullCond(col) == [op |-> "is_null", col |-> col, lit |-> <<>>]

EmptyOrNullCond(col) == [op |-> "empty_or_null", col |-> col, lit |-> <<>>]

EqCond(col, lit) == [op |-> "eq", col |-> col, lit |-> lit]

\* mutant of domo_condition: a missing value is compared with = NULL
domo_condition_eq_null(value, col) ==
    LET escaped_col == escape_domo_column_name(col)
    IN IF is_na(value) THEN EqCond(escaped_col, <<"N","U","L","L">>)
       ELSE IF value.t = "str"
       THEN (IF py_strip(value.s) = <<>> THEN EmptyOrNullCond(escaped_col)
             ELSE EqCond(escaped_col, quoted_literal(value.s)))
       ELSE EqCond(escaped_col, py_str(value))

\* build_or_where_clause, lines 166-180: the condition of one key column of one row
domo_condition(value, col) ==
    LET escaped_col == escape_domo_column_name(col)
    IN IF is_na(value) THEN IsNullCond(escaped_col)
       ELSE IF value.t = "str"
       THEN (IF py_strip(value.s) = <<>> THEN EmptyOrNullCond(escaped_col)
             ELSE EqCond(escaped_col, quoted_literal(value.s)))
       ELSE EqCond(escaped_col, py_str(value))

\* build_or_where_clause
build_or_where_clause(df, key_columns, domo_column_mapping) ==
    LET domo_key_columns == domo_key_columns_of(key_columns, domo_column_mapping)
    IN IF df.rows # <<>> /\ \E i \in DOMAIN key_columns : ColumnIndex(df, key_columns[i]) = 0
       THEN FilterRaise("KeyError")
       ELSE OrFilter([r \in DOMAIN df.rows |->
                [i \in DOMAIN domo_key_columns |->
                    domo_condition(df.rows[r][ColumnIndex(df, key_columns[i])],
                                   domo_key_columns[i])]])

\* build_efficient_where_clause
build_efficient_where_clause(df, key_columns, domo_column_mapping) ==
    IF df.rows = <<>> THEN FilterRaise("No sampled keys provided")
    ELSE LET domo_key_columns == domo_key_columns_of(key_columns, domo_column_mapping)
         IN IF Len(domo_key_columns) = 1
            THEN LET c == ColumnIndex(df, key_columns[1])
                 IN IF c = 0 THEN FilterRaise("KeyError")
                    ELSE LET values == DropNaValues(df, c)
                             escaped_values ==
                                 IF \A k \in DOMAIN values : values[k].t = "str"
                                 THEN [k \in DOMAIN values |-> quoted_literal(values[k].s)]
                                 ELSE [k \in DOMAIN values |-> py_str(values[k])]
                         IN InFilter(escape_domo_column_name(domo_key_columns[1]),
                                     escaped_values)
            ELSE build_or_where_clause(df, key_columns, domo_column_mapping)

\* mutant of snowflake_condition: an empty string is compared with = '' only
snowflake_condition_plain(value, col) ==
    LET normalized_col == transform_column_name(col)
    IN IF is_na(value) THEN IsNullCond(normalized_col)
       ELSE LET escaped_value == double_quotes(py_str(value))
            IN EqCond(normalized_col, <<"'">> \o escaped_value \o <<"'">>)

\* build_snowflake_or_where_clause, lines 245-258
snowflake_condition(value, col) ==
    LET normalized_col == transform_column_name(col)
    IN IF is_na(value) THEN IsNullCond(normalized_col)
       ELSE LET escaped_value == double_quotes(py_str(value))
            IN IF py_strip(escaped_value) = <<>> THEN EmptyOrNullCond(normalized_col)
               ELSE EqCond(normalized_col, <<"'">> \o escaped_value \o <<"'">>)

\* build_snowflake_or_where_clause
build_snowflake_or_where_clause(df, key_columns) ==
    IF df.rows # <<>> /\ \E i \in DOMAIN key_columns : ColumnIndex(df, key_columns[i]) = 0
    THEN FilterRaise("KeyError")
    ELSE OrFilter([r \in DOMAIN df.rows |->
             [i \in DOMAIN key_columns |->
                 snowflake_condition(df.rows[r][ColumnIndex(df, key_columns[i])],
                                     key_columns[i])]])

\* build_snowflake_where_clause
build_snowflake_where_clause(df, key_columns) ==
    IF df.rows = <<>> THEN FilterRaise("No sampled keys provided")
    ELSE IF Len(key_columns) = 1
    THEN LET c == ColumnIndex(df, key_columns[1])
         IN IF c = 0 THEN FilterRaise("KeyError")
            ELSE LET values == DropNaValues(df, c)
                 IN InFilter(transform_column_name(key_columns[1]),
                             [k \in DOMAIN values |-> quoted_literal(py_str(values[k]))])
    ELSE build_snowflake_or_where_clause(df, key_columns)

(***************************************************************************)
(* SpecQuery: _get_batch_data, lines 177-181, builds the two filters of    *)
(* one batch of sampled keys.                                              *)
(***************************************************************************)
\* largest number of key rows in a batch of SpecQuery
MaxFilterRows == 2

N_Rate_Pct == <<"R","a","t","e"," ","%">>

N_RATE_PCT == <<"R","A","T","E","_","%">>

\* the key column lists a caller passes
KeyColumnLists ==
    { <<N_id>>, <<N_Site_Code>>, <<N_SITE_CODE>>, <<N_Rate_Pct>>,
      <<N_id, N_Site_Code>>, <<N_Site_Code, N_id>>, <<N_SITE_CODE, N_Rate_Pct>> }

\* compare_schemas, line 79: normalized name -> original Domo name
SchemaColumnMapping ==
    Put(Put(Put(EmptyDict, N_ID, N_id), N_SITE_CODE, N_Site_Code), N_RATE_PCT, N_Rate_Pct)

ColumnMappings == {EmptyDict, SchemaColumnMapping}

\* the values a key column of the source holds: one type per column
KeyValuesOf(name) ==
    IF name = N_id THEN {NullValue, NumValue(7), NumValue(12)}
    ELSE {NullValue, StrValue(<<"a">>), StrValue(<<"o","'","k">>), StrValue(<<>>),
          StrValue(<<" ">>)}

\* the key tuples a table with these key columns can hold
KeyTuples(key_columns) ==
    IF Len(key_columns) = 1
    THEN {<<v>> : v \in KeyValuesOf(key_columns[1])}
    ELSE {<<v, w>> : v \in KeyValuesOf(key_columns[1]), w \in KeyValuesOf(key_columns[2])}

\* _get_all_unique_keys: the frame of sampled keys carries the column names
\* of the SELECT DISTINCT sent to the source
KeyFrames(key_columns, domo_column_mapping) ==
    {[columns |-> domo_key_columns_of(key_columns, domo_column_mapping), rows |-> rows] :
        rows \in UNION {[1..n -> KeyTuples(key_columns)] : n \in 0..MaxFilterRows}}

InitQuery ==
    /\ fn_name = "_get_batch_data"
    /\ \E key_columns \in KeyColumnLists, m \in ColumnMappings :
          \E df \in KeyFrames(key_columns, m) :
              fn_args = [batch_keys_df |-> df, key_columns |-> key_columns,
                         domo_column_mapping |-> m]
    /\ fn_ret = <<>>
    /\ BatchIdle
    /\ CompareIdle

\* lines 177-181: the source filter, then the warehouse filter
BuildFilters ==
    /\ fn_name = "_get_batch_data"
    /\ fn_ret = <<>>
    /\ LET domo_where_clause ==
               build_efficient_where_clause(fn_args.batch_keys_df, fn_args.key_columns,
                                            fn_args.domo_column_mapping)
           sf_where_clause ==
               build_snowflake_where_clause(fn_args.batch_keys_df, fn_args.key_columns)
       IN fn_ret' = IF domo_where_clause.kind = "raise"
                    THEN <<[raised |-> TRUE, domo |-> domo_where_clause,
                            sf |-> domo_where_clause]>>
                    ELSE <<[raised |-> sf_where_clause.kind = "raise",
                            domo |-> domo_where_clause, sf |-> sf_where_clause]>>
    /\ UNCHANGED <<fn_name, fn_args, bp_vars, cmp_vars>>

NextQuery == BuildFilters

SpecQuery == InitQuery /\ [][NextQuery]_vars

(***************************************************************************)
(* Claims about the filters (SpecQuery).  The meaning of a filter is the   *)
(* set of key tuples it selects: a literal compares equal to a non-null    *)
(* value whose text it spells, a quoted literal spelling its content with  *)
(* every embedded quote doubled.                                           *)
(***************************************************************************)
FiltersBuilt == fn_name = "_get_batch_data" /\ fn_ret # <<>> /\ ~fn_ret[1].raised

IsQuotedLiteral(lit) == Len(lit) >= 2 /\ lit[1] = "'" /\ lit[Len(lit)] = "'"

RECURSIVE Undouble(_)
\* the content spelled by the inside of a quoted literal; a lone quote ends
\* the literal early and the text is not a literal
Undouble(inner) ==
    IF inner = <<>> THEN [ok |-> TRUE, text |-> <<>>]
    ELSE IF Head(inner) # "'"
    THEN LET rest == Undouble(Tail(inner))
         IN [ok |-> rest.ok, text |-> <<Head(inner)>> \o rest.text]
    ELSE IF Len(inner) >= 2 /\ inner[2] = "'"
    THEN LET rest == Undouble(Tail(Tail(inner)))
         IN [ok |-> rest.ok, text |-> <<"'">> \o rest.text]
    ELSE [ok |-> FALSE, text |-> <<>>]

LiteralContent(lit) ==
    IF IsQuotedLiteral(lit) THEN Undouble(SubSeq(lit, 2, Len(lit) - 1))
    ELSE [ok |-> \A i \in DOMAIN lit : lit[i] \in Digits, text |-> lit]

EqualsLiteral(v, lit) ==
    /\ ~is_na(v)
    /\ LiteralContent(lit).ok
    /\ LiteralContent(lit).text = py_str(v)

CondHolds(cond, v) ==
    IF cond.op = "is_null" THEN is_na(v)
    ELSE IF cond.op = "empty_or_null" THEN is_na(v) \/ (v.t = "str" /\ v.s = <<>>)
    ELSE EqualsLiteral(v, cond.lit)

Selects(filter, tuple) ==
    IF filter.kind = "in"
    THEN \E k \in DOMAIN filter.values : EqualsLiteral(tuple[1], filter.values[k])
    ELSE \E g \in DOMAIN filter.groups :
            \A i \in DOMAIN filter.groups[g] : CondHolds(filter.groups[g][i], tuple[i])

Denotation(filter, key_columns) == {t \in KeyTuples(key_columns) : Selects(filter, t)}

IsQuotedIdentifier(e) == Len(e) >= 2 /\ e[1] = "\"" /\ e[Len(e)] = "\""

\* the column an emitted identifier names
IdentifierName(e) == IF IsQuotedIdentifier(e) THEN SubSeq(e, 2, Len(e) - 1) ELSE e

\* the identifiers emitted in a filter, one per key column
EmittedIdentifiers(filter) ==
    IF filter.kind = "in" THEN {filter.col}
    ELSE {filter.groups[g][i].col : g \in DOMAIN filter.groups, i \in 1..Len(fn_args.key_columns)}

\* the key rows a filter was built from: conditions per row, or the list of values
SameShape(f1, f2) ==
    /\ f1.kind = f2.kind
    /\ Len(f1.values) = Len(f2.values)
    /\ Len(f1.groups) = Len(f2.groups)
    /\ \A g \in DOMAIN f1.groups : Len(f1.groups[g]) = Len(f2.groups[g])

SingleKeyValues ==
    DropNaValues(fn_args.batch_keys_df,
                 ColumnIndex(fn_args.batch_keys_df, fn_args.key_columns[1]))

\* a single-quoted literal spelling the text with embedded quotes doubled
IsQuotedLiteralOf(lit, text) ==
    /\ IsQuotedLiteral(lit)
    /\ LiteralContent(lit).ok
    /\ LiteralContent(lit).text = text

\* an unquoted literal spelling the number
IsBareNumberOf(lit, v) == ~IsQuotedLiteral(lit) /\ lit = IntToStr(v.n)

SingleKeyFilters == FiltersBuilt /\ Len(fn_args.key_columns) = 1

C17_OrOfAndGroups ==
    (FiltersBuilt /\ Len(fn_args.key_columns) >= 2) =>
        LET rows == fn_args.batch_keys_df.rows
            key_columns == fn_args.key_columns
        IN \A f \in {fn_ret[1].domo, fn_ret[1].sf} :
            /\ f.kind = "or"
            /\ Len(f.groups) = Len(rows)
            /\ \A g \in DOMAIN f.groups :
                  /\ Len(f.groups[g]) = Len(key_columns)
                  /\ \A i \in DOMAIN key_columns :
                        LET v == rows[g][i]
                            c == f.groups[g][i]
                        IN /\ transform_column_name(IdentifierName(c.col))
                                 = transform_column_name(key_columns[i])
                           /\ is_na(v) <=> c.op = "is_null"
                           /\ (v.t = "str" /\ v.s = <<>>) => c.op = "empty_or_null"
                           /\ c.op = "eq" => EqualsLiteral(v, c.lit)

\* a row with a NULL key and a row with an empty-string key
C17_Witness ==
    /\ FiltersBuilt
    /\ fn_args.key_columns = <<N_Site_Code, N_id>>
    /\ fn_args.batch_keys_df.rows =
           << <<StrValue(<<"a">>), NullValue>>, <<StrValue(<<>>), NumValue(7)>> >>
    /\ fn_ret[1].sf.groups[1][2] = IsNullCond(N_ID)
    /\ fn_ret[1].domo.groups[2][1] = EmptyOrNullCond(<<"\"">> \o N_Site_Code \o <<"\"">>)

\* C18: in every filter of either dialect an identifier holding a character
\* other than a letter, a digit or an underscore is emitted quoted, and an
\* identifier made only of letters, digits and underscores is emitted unquoted.
C18_IdentifiersQuoted ==
    FiltersBuilt =>
        \A e \in EmittedIdentifiers(fn_ret[1].domo) \cup EmittedIdentifiers(fn_ret[1].sf) :
            IsQuotedIdentifier(e)
                <=> \E i \in DOMAIN IdentifierName(e) : ~IsWordChar(IdentifierName(e)[i])

(***************************************************************************)
(* SchemaComparator.compare_schemas called repeatedly on one comparator:   *)
(* fn_args keeps the schemas each call read and its mode, fn_ret the dict   *)
(* each call returned.                                                     *)
(***************************************************************************)
MaxSchemaCalls == 2

\* a source schema whose id column is text and whose Amount has a type of no group
DomoSchemaTextId == <<Col(N_id, "STRING"), Col(N_Amount, "VARIANT")>>

\* what get_dataset_schema hands to compare_schemas in SpecSchema
SchemaCallDomoOutcomes ==
    DomoSchemaOutcomes \cup {DomoSchemaList(DomoSchemaTextId), DomoSchemaDict(DomoSchemaTextId)}

InitSchema ==
    /\ BatchIdle
    /\ CompareIdle
    /\ fn_name = "compare_schemas"
    /\ fn_args = <<>>
    /\ fn_ret = <<>>

\* one call compare_schemas(domo_dataset_id, snowflake_table, transform_names,
\* use_intelligent_mapping)
CallCompareSchemas(domo_out, sf_out, use_intelligent_mapping) ==
    /\ fn_name = "compare_schemas"
    /\ Len(fn_ret) < MaxSchemaCalls
    /\ LET r == compare_schemas(domo_out, sf_out, use_intelligent_mapping,
                                domo_original_columns, intelligent_mapping)
       IN /\ fn_ret' = Append(fn_ret, r.result)
          /\ schema_comparison' = r.result
          /\ domo_original_columns' = r.original
          /\ intelligent_mapping' = r.intelligent
    /\ fn_args' = Append(fn_args, [domo_schema |-> domo_out, sf_columns |-> sf_out,
                                   use_intelligent_mapping |-> use_intelligent_mapping])
    /\ UNCHANGED <<fn_name, gr_pc, gr_args, connected, self_errors, dc_errors,
                   row_count_comparison, sample_size, actual_sampling_method,
                   sampler_calls, random_error, ordered_error, all_keys_df, rng_state,
                   sample_runs, sample_frames, data_comparison, report>>
    /\ UNCHANGED bp_vars

NextSchema ==
    \E domo_out \in SchemaCallDomoOutcomes, sf_out \in SfColumnsOutcomes,
       use_intelligent_mapping \in BOOLEAN :
        CallCompareSchemas(domo_out, sf_out, use_intelligent_mapping)

SpecSchema == InitSchema /\ [][NextSchema]_vars

\* the calls of SpecSchema in which both systems returned a schema
SchemaCalls ==
    {i \in DOMAIN fn_ret : /\ fn_name = "compare_schemas"
                           /\ fn_args[i].domo_schema.kind # "raise"
                           /\ fn_args[i].sf_columns.kind # "raise"}

NormalizedNames(cols) == {transform_column_name(cols[j].name) : j \in DOMAIN cols}

\* C19: in exact mode, whenever both systems return their schema, every
\* normalized column name of the two schemas is in exactly one of common,
\* missing-in-warehouse and extra-in-warehouse, the three are pairwise
\* disjoint and hold nothing else, and schema_match is true exactly when the
\* missing, extra and type-mismatch lists are all empty.
C19_ExactClassification ==
    \A i \in SchemaCalls :
        ~fn_args[i].use_intelligent_mapping =>
            LET r == fn_ret[i]
                domo_names == NormalizedNames(fn_args[i].domo_schema.columns)
                sf_names == NormalizedNames(fn_args[i].sf_columns.columns)
            IN /\ r.common_columns = domo_names \cap sf_names
               /\ r.missing_in_snowflake = domo_names \ sf_names
               /\ r.extra_in_snowflake = sf_names \ domo_names
               /\ r.schema_match <=> /\ r.missing_in_snowflake = {}
                                     /\ r.extra_in_snowflake = {}
                                     /\ r.type_mismatches = {}

TypeGroups == {text_like, int_like, float_like, bool_like, dt_like}

\* both types are known and no group holds both
DifferentTypeGroups(d, t) ==
    /\ \E g \in TypeGroups : d \in g
    /\ \E g \in TypeGroups : t \in g
    /\ ~\E g \in TypeGroups : d \in g /\ t \in g

\* the native types a schema declares for a normalized column name
NativeTypes(cols, col) ==
    {cols[j].type : j \in {k \in DOMAIN cols : transform_column_name(cols[k].name) = col}}

MaxReports == 3

RECURSIVE add_errors(_, _)
\* the _add_error calls of one compare_data_samples call, in order
add_errors(errors, added) ==
    IF added = <<>> THEN errors
    ELSE add_errors(add_error(errors, Head(added).section, Head(added).error), Tail(added))

Err(section, error) == [section |-> section, error |-> error]

good_data_result(data_match) ==
    [sample_size |-> 1, domo_sample_rows |-> 1, snowflake_sample_rows |-> 1,
     data_match |-> data_match, error |-> FALSE, sampling_method |-> "Random Sampling"]

\* the ways one compare_data_samples call ends: the dict it returns and the
\* errors it records (data_comparator.py lines 116, 129, 153 and 310)
DataEndings ==
    { [data |-> good_data_result(TRUE), added |-> <<>>],
      [data |-> good_data_result(FALSE), added |-> <<>>],
      [data |-> ordered_failed_result,
       added |-> <<Err("Data Sampling", "Ordered sampling failed")>>],
      [data |-> error_data_result(1, 0, 0),
       added |-> <<Err("Sample Extraction", "Both smart and fallback sampling failed")>>],
      [data |-> error_data_result(1, 1, 1),
       added |-> <<Err("Data Comparison", "Error using datacompy")>>] }

\* line 116: the row-count query of compare_data_samples may fail first
DataRuns ==
    DataEndings \cup
    { [data |-> e.data,
       added |-> <<Err("Sample Size Calculation", "Could not get total row count")>> \o e.added] :
      e \in DataEndings }

\* what the two systems answer during one generate_report call
ReportInputs ==
    [setup_ok : BOOLEAN,
     domo_schema : {DomoSchemaList(<<>>),
                    DomoSchemaDict(<<Col(N_Site_Code, "STRING"), Col(N_id, "LONG")>>)},
     sf_columns : {[kind |-> "list", columns |-> <<Col(N_SITE_CODE, "TEXT"), Col(N_ID, "NUMBER")>>]},
     domo_count : {CountOut(50)},
     sf_count : {CountOut(50)},
     run : DataRuns]

\* dataset_comparator.py line 167: self.errors = []
cleared_errors(errors) == <<>>

\* generate_report (dataset_comparator.py lines 156-233) on a DatasetComparator
\* whose attributes are old: the report returned and the attributes left
generate_report(old, in) ==
    LET errors == cleared_errors(old.self_errors)
    IN IF ~(old.connected \/ in.setup_ok)
       THEN [old EXCEPT !.self_errors = errors, !.report = connection_error_report]
       ELSE LET sc == compare_schemas(in.domo_schema, in.sf_columns, FALSE,
                                      old.domo_original_columns, old.intelligent_mapping)
                rc == compare_row_counts(in.domo_count, in.sf_count)
                data_errors == add_errors(old.dc_errors, in.run.added)
            IN [connected |-> TRUE,
                self_errors |-> errors,
                dc_errors |-> data_errors,
                domo_original_columns |-> sc.original,
                intelligent_mapping |-> sc.intelligent,
                schema_comparison |-> sc.result,
                row_count_comparison |-> rc,
                data_comparison |-> in.run.data,
                report |-> build_report(sc.result, rc, in.run.data, errors, data_errors)]

\* the attributes of the DatasetComparator and its components
ComparatorState ==
    [connected |-> connected,
     self_errors |-> self_errors,
     dc_errors |-> dc_errors,
     domo_original_columns |-> domo_original_columns,
     intelligent_mapping |-> intelligent_mapping,
     schema_comparison |-> schema_comparison,
     row_count_comparison |-> row_count_comparison,
     data_comparison |-> data_comparison,
     report |-> report]

SetComparatorState(new) ==
    /\ connected' = new.connected
    /\ self_errors' = new.self_errors
    /\ dc_errors' = new.dc_errors
    /\ domo_original_columns' = new.domo_original_columns
    /\ intelligent_mapping' = new.intelligent_mapping
    /\ schema_comparison' = new.schema_comparison
    /\ row_count_comparison' = new.row_count_comparison
    /\ data_comparison' = new.data_comparison
    /\ report' = new.report
    /\ UNCHANGED <<gr_pc, gr_args, sample_size, actual_sampling_method, sampler_calls,
                   random_error, ordered_error, all_keys_df, rng_state, sample_runs,
                   sample_frames>>

\* the errors one call records itself
RecordedBy(old, in) ==
    IF ~(old.connected \/ in.setup_ok) THEN connection_error_report.errors
    ELSE in.run.added

InitReports ==
    /\ BatchIdle
    /\ CompareIdle
    /\ fn_name = "generate_report"
    /\ fn_args = <<>>
    /\ fn_ret = <<>>

\* one generate_report call; fn_args keeps the errors each call recorded and
\* fn_ret the report each call returned
GenerateReport(in) ==
    /\ fn_name = "generate_report"
    /\ Len(fn_ret) < MaxReports
    /\ LET new == generate_report(ComparatorState, in)
       IN /\ SetComparatorState(new)
          /\ fn_ret' = Append(fn_ret, new.report)
    /\ fn_args' = Append(fn_args, RecordedBy(ComparatorState, in))
    /\ UNCHANGED <<fn_name, bp_vars>>

NextReports == \E in \in ReportInputs : GenerateReport(in)

SpecReports == InitReports /\ [][NextReports]_vars

\* C21: after any sequence of generate_report calls on one DatasetComparator,
\* the errors of each returned report are exactly the errors recorded during
\* that call; no error of an earlier call appears in a later report.
C21_ErrorsOfThisCallOnly ==
    fn_name = "generate_report" =>
        \A i \in DOMAIN fn_ret : fn_ret[i].errors = fn_args[i]

(***************************************************************************)
(* SpreadsheetComparisonRunner._process_comparisons and                    *)
(* InventoryComparisonRunner._process_inventory_comparisons: one loop      *)
(* iteration per row, all rows on the runner's one DatasetComparator.      *)
(***************************************************************************)
MaxBulkRows == 3

\* what the systems answer to the comparison of one row
BulkInputs ==
    {in \in ReportInputs :
        /\ in.domo_schema = DomoSchemaList(<<>>)
        /\ in.run.added \in {<<>>, <<Err("Data Sampling", "Ordered sampling failed")>>,
                             <<Err("Data Comparison", "Error using datacompy")>>}}

\* a row of the sheet: complete or not, and whether generate_report raises
\* before it has done anything (the file logger of line 162)
BulkRows == [complete : BOOLEAN, raises : BOOLEAN, in : BulkInputs]

\* the dict returned after the loop (spreadsheet_runner.py lines 332-342)
bulk_results(acc) ==
    [success |-> Len(acc.successful_comparisons),
     failed |-> Len(acc.failed_comparisons),
     total |-> Len(acc.successful_comparisons) + Len(acc.failed_comparisons),
     errors |-> acc.errors,
     successful_datasets |-> acc.successful_comparisons,
     failed_datasets |-> acc.failed_comparisons]

InitBulk ==
    /\ BatchIdle
    /\ CompareIdle
    /\ fn_name = "_process_comparisons"
    /\ fn_args = <<>>
    /\ fn_ret = <<[successful_comparisons |-> <<>>, failed_comparisons |-> <<>>,
                   errors |-> <<>>]>>

\* one iteration of the loop over the rows; fn_args notes for each row how it
\* was handled and which errors its own comparison recorded
ProcessComparison(row) ==
    /\ fn_name = "_process_comparisons"
    /\ Len(fn_args) < MaxBulkRows
    /\ LET dataset_id == Len(fn_args) + 1
           acc == fn_ret[1]
           new == generate_report(ComparatorState, row.in)
       IN IF ~row.complete
          THEN \* lines 262-272: continue
               /\ fn_args' = Append(fn_args, [handled |-> "skipped", recorded |-> <<>>])
               /\ UNCHANGED <<fn_ret, cmp_vars>>
          ELSE IF row.raises
          THEN \* lines 326-330
               /\ fn_args' = Append(fn_args, [handled |-> "raised", recorded |-> <<>>])
               /\ fn_ret' = <<[acc EXCEPT
                      !.failed_comparisons = Append(@, dataset_id),
                      !.errors = Append(@, [dataset_id |-> dataset_id,
                                            error |-> "exception"])]>>
               /\ UNCHANGED cmp_vars
          ELSE /\ fn_args' = Append(fn_args,
                      [handled |-> "compared",
                       recorded |-> RecordedBy(ComparatorState, row.in)])
               /\ SetComparatorState(new)
               /\ fn_ret' = IF new.report.errors # <<>>
                            THEN <<[acc EXCEPT
                                      !.failed_comparisons = Append(@, dataset_id),
                                      !.errors = @ \o [j \in DOMAIN new.report.errors |->
                                                  [dataset_id |-> dataset_id,
                                                   error |-> new.report.errors[j].error]]]>>
                            ELSE <<[acc EXCEPT
                                      !.successful_comparisons = Append(@, dataset_id)]>>
    /\ UNCHANGED <<fn_name, bp_vars>>

NextBulk == \E row \in BulkRows : ProcessComparison(row)

SpecBulk == InitBulk /\ [][NextBulk]_vars

\* the rows whose comparison was run, by outcome
BulkHandled(h) == {i \in DOMAIN fn_args : fn_args[i].handled = h}

\* C28: in a bulk run, a dataset whose own comparison recorded no error is
\* counted as successful whatever happened to the datasets before it; every
\* dataset whose comparison was attempted is counted exactly once, so
\* success + failed = total.
C28_BulkCounts ==
    fn_name = "_process_comparisons" =>
        LET r == bulk_results(fn_ret[1])
            attempted == BulkHandled("compared") \cup BulkHandled("raised")
        IN /\ \A i \in BulkHandled("compared") :
                  fn_args[i].recorded = <<>> => i \in Range(r.successful_datasets)
           /\ Range(r.successful_datasets) \cup Range(r.failed_datasets) = attempted
           /\ Range(r.successful_datasets) \cap Range(r.failed_datasets) = {}
           /\ r.success + r.failed = r.total
           /\ r.total = Cardinality(attempted)

(***************************************************************************)
(* The column part of the comparison summary: datacompy.Compare joins the  *)
(* two frames on the key and _analyze_data_differences reads its           *)
(* column_stats.  A frame maps each key it holds to the row of that key.   *)
(***************************************************************************)
MaxSummaryKeys == 2

\* the non-key columns of the sampled frames, in frame order
ValueColumns == <<"AMOUNT", "NAME">>

AmountValues == {NullValue, NumValue(7), NumValue(12)}

NameValues == {StrValue(<<"a">>), StrValue(<<"b">>)}

SummaryRows == [AMOUNT : AmountValues, NAME : NameValues]

SummaryFrames ==
    UNION {[ks -> SummaryRows] : ks \in SUBSET (1..MaxSummaryKeys)}

\* Series.astype(float) succeeds on numbers, NaN and numeric text
float_convertible(v) ==
    \/ v.t \in {"null", "num"}
    \/ v.t = "str" /\ v.s # <<>> /\ \A i \in DOMAIN v.s : v.s[i] \in Digits

\* datacompy columns_equal: equal values, or missing on both sides
columns_equal(a, b) == a = b

SetMax(S) == IF S = {} THEN 0 ELSE CHOOSE m \in S : \A x \in S : x <= m

\* datacompy calculate_max_diff: (col_1.astype(float) - col_2.astype(float))
\* .abs().max(), NaN differences skipped, and 0 when the conversion raises
calculate_max_diff(df1, df2, keys, col) ==
    IF \A k \in keys : float_convertible(df1[k][col]) /\ float_convertible(df2[k][col])
    THEN SetMax({Abs(df1[k][col].n - df2[k][col].n) :
                    k \in {j \in keys : ~is_na(df1[j][col]) /\ ~is_na(df2[j][col])}})
    ELSE 0

\* one entry of Compare.column_stats for a non-key column
column_stat(df1, df2, col) ==
    LET keys == DOMAIN df1 \cap DOMAIN df2
    IN [column |-> col,
        unequal_cnt |-> Cardinality({k \in keys : ~columns_equal(df1[k][col], df2[k][col])}),
        max_diff |-> calculate_max_diff(df1, df2, keys, col),
        null_diff |-> Cardinality({k \in keys : is_na(df1[k][col]) # is_na(df2[k][col])})]

\* datacompy.Compare(domo_df, sf_df, join_columns=key): the rows only one
\* side has and the statistics of the shared columns
datacompy_compare(df1, df2) ==
    [df1_unq_rows |-> DOMAIN df1 \ DOMAIN df2,
     df2_unq_rows |-> DOMAIN df2 \ DOMAIN df1,
     column_stats |-> [i \in DOMAIN ValueColumns |-> column_stat(df1, df2, ValueColumns[i])]]

\* executive_summary.py lines 361-363
has_real_difference(stat) ==
    stat.unequal_cnt > 0 /\ (stat.max_diff > 0 \/ stat.null_diff > 0)

RECURSIVE columns_with_diffs_of(_)
\* lines 351-364: the columns kept, in column_stats order
columns_with_diffs_of(stats) ==
    IF stats = <<>> THEN <<>>
    ELSE (IF has_real_difference(Head(stats)) THEN <<Head(stats).column>> ELSE <<>>)
             \o columns_with_diffs_of(Tail(stats))

\* _analyze_data_differences, lines 320-408, with a comparison object
analyze_data_differences(comparison) ==
    LET missing_in_sf == Cardinality(comparison.df1_unq_rows)
        extra_in_sf == Cardinality(comparison.df2_unq_rows)
        columns_with_diffs == columns_with_diffs_of(comparison.column_stats)
    IN (IF missing_in_sf > 0 THEN <<[line |-> "Rows Missing in Snowflake", n |-> missing_in_sf]>>
        ELSE <<>>)
       \o (IF extra_in_sf > 0 THEN <<[line |-> "Extra Rows in Snowflake", n |-> extra_in_sf]>>
           ELSE <<>>)
       \o (IF Len(columns_with_diffs) = 0 THEN <<[line |-> "All values matched"]>>
           ELSE IF Len(columns_with_diffs) <= 5
           THEN <<[line |-> "Columns with Different Values", columns |-> columns_with_diffs]>>
           ELSE <<[line |-> "Columns with Different Values",
                   columns |-> SubSeq(columns_with_diffs, 1, 5)],
                  [line |-> "more columns with differences",
                   n |-> Len(columns_with_diffs) - 5]>>)

InitSummary ==
    /\ BatchIdle
    /\ CompareIdle
    /\ fn_name = "_analyze_data_differences"
    /\ fn_args \in [domo_df : SummaryFrames, sf_df : SummaryFrames]
    /\ fn_ret = <<>>

\* the two frames are compared (data_comparator.py lines 281-307) and the
\* summary lines written
AnalyzeDataDifferences ==
    /\ fn_name = "_analyze_data_differences"
    /\ fn_ret = <<>>
    /\ LET comparison == datacompy_compare(fn_args.domo_df, fn_args.sf_df)
       IN fn_ret' = <<[missing_in_snowflake |-> Cardinality(comparison.df1_unq_rows),
                       extra_in_snowflake |-> Cardinality(comparison.df2_unq_rows),
                       data_lines |-> analyze_data_differences(comparison)]>>
    /\ UNCHANGED <<fn_name, fn_args, bp_vars, cmp_vars>>

NextSummary == AnalyzeDataDifferences

SpecSummary == InitSummary /\ [][NextSummary]_vars

\* the (key, column) cells in which two frames with the same keys differ
DifferingCells(df1, df2) ==
    {<<k, i>> \in (DOMAIN df1) \X (DOMAIN ValueColumns) :
        df1[k][ValueColumns[i]] # df2[k][ValueColumns[i]]}

ListedColumns(data_lines) ==
    UNION {Range(data_lines[j].columns) :
             j \in {x \in DOMAIN data_lines : data_lines[x].line = "Columns with Different Values"}}

SummaryWritten == fn_name = "_analyze_data_differences" /\ fn_ret # <<>>

\* C22: two row sets with the same keys that differ in the value of exactly
\* one non-key column for exactly one key give zero missing and zero extra
\* rows, and the summary lists that column under Columns with Different
\* Values, whether the differing value is a number or text.
C22_SingleDifferenceListed ==
    (/\ SummaryWritten
     /\ DOMAIN fn_args.domo_df = DOMAIN fn_args.sf_df
     /\ Cardinality(DifferingCells(fn_args.domo_df, fn_args.sf_df)) = 1)
        => /\ fn_ret[1].missing_in_snowflake = 0
           /\ fn_ret[1].extra_in_snowflake = 0
           /\ \A c \in DifferingCells(fn_args.domo_df, fn_args.sf_df) :
                  ValueColumns[c[2]] \in ListedColumns(fn_ret[1].data_lines)

(***************************************************************************)
(* Order of the sampling queries of one comparison (SpecCompare).  The     *)
(* query log holds the row queries of process_batches in the order they    *)
(* were issued, each with its outcome.                                     *)
(***************************************************************************)
RandomMode == gr_pc # "idle" /\ gr_args # <<>> /\ gr_args.sampling_method = "random"

RowsRetrieved == gr_pc # "idle" /\ sample_frames # <<>> /\ sample_frames[2] # <<>>

\* the frames are the ones a process_batches call returned
RetrievedByProcessBatches == bp_pc = "returned" /\ sample_frames = bp_result

\* C24 (as claimed): whichever sampling mode is used, the rows of both
\* systems are retrieved by a process_batches call on the chosen keys.
C24_AsClaimed == RowsRetrieved => RetrievedByProcessBatches

\* C24 (amended): with random sampling the rows of both systems are retrieved
\* by a process_batches call on the chosen keys, in batches of at most 50
\* keys that cover the sample in order; with ordered sampling, requested or
\* used as the fallback, no row comes from process_batches: each system is
\* asked once for its first sample_size rows in key order, and when ordered
\* sampling was requested process_batches is never called.
C24_Amended ==
    /\ (RowsRetrieved /\ actual_sampling_method = "Random Sampling") =>
          /\ RetrievedByProcessBatches
          /\ sampled_keys_df = sample_runs[Len(sample_runs)]
          /\ \A b \in DOMAIN batch_calls : Len(batch_calls[b]) <= 50
          /\ Flatten(batch_calls) = sampled_keys_df
    /\ (RowsRetrieved /\ actual_sampling_method = "Ordered Sampling") =>
          /\ bp_pc # "returned"
          /\ Len(sample_frames[1]) <= sample_size
          /\ Len(sample_frames[2]) <= sample_size
    /\ (gr_pc # "idle" /\ gr_args # <<>> /\ gr_args.sampling_method = "ordered") =>
          bp_pc = "idle" /\ query_log = <<>>

\* ordered sampling was requested and both frames were retrieved
C24_Witness ==
    /\ RowsRetrieved
    /\ gr_args.sampling_method = "ordered"
    /\ actual_sampling_method = "Ordered Sampling"
    /\ Reported
    /\ ~data_comparison.error

\* a key column given in normalized form that the mapping translates to a
\* different native name
HasRenamedKey ==
    \E i \in DOMAIN fn_args.key_columns :
        /\ fn_args.key_columns[i] \in DOMAIN fn_args.domo_column_mapping
        /\ fn_args.domo_column_mapping[fn_args.key_columns[i]] # fn_args.key_columns[i]

\* C25: when a key column is supplied in normalized form and the mapping
\* translates it to a different native name, the filters of a batch of keys
\* fetched from the source are built without error and the source filter
\* names the native columns, so random sampling goes on.
C25_RenamedKeyFilterBuilt ==
    (/\ fn_name = "_get_batch_data"
     /\ fn_ret # <<>>
     /\ fn_args.batch_keys_df.rows # <<>>
     /\ HasRenamedKey)
        => /\ ~fn_ret[1].raised
           /\ {IdentifierName(e) : e \in EmittedIdentifiers(fn_ret[1].domo)}
                  = Range(domo_key_columns_of(fn_args.key_columns, fn_args.domo_column_mapping))

\* C26: whenever the source returns its schema as a non-empty list of
\* {name, type} records and the warehouse has the same normalized column
\* names, compare_schemas completes without the error flag and reports the
\* schemas as matching.
C26_ListSchemaCompared ==
    \A i \in SchemaCalls :
        (/\ fn_args[i].domo_schema.kind = "list"
         /\ fn_args[i].domo_schema.columns # <<>>
         /\ NormalizedNames(fn_args[i].domo_schema.columns)
                = NormalizedNames(fn_args[i].sf_columns.columns))
            => ~fn_ret[i].error /\ fn_ret[i].schema_match

\* the native column names of the source schema of the latest call
LastSourceNames ==
    Range(Names(fn_args[Len(fn_args)].domo_schema.columns))

SharedNativeNames(i) ==
    Range(Names(fn_args[i].domo_schema.columns))
        \cap Range(Names(fn_args[i].sf_columns.columns))

CountQueryOutcomes == {Raise, DriverError} \cup {CountOut(c) : c \in RowCountBases}

InitRowCounts ==
    /\ fn_name = "compare_row_counts"
    /\ \E domo_out \in CountQueryOutcomes, sf_out \in CountQueryOutcomes :
          fn_args = [domo_out |-> domo_out, sf_out |-> sf_out]
    /\ fn_ret = <<>>
    /\ BatchIdle
    /\ CompareIdle

ApplyCompareRowCounts ==
    /\ fn_name = "compare_row_counts"
    /\ fn_ret = <<>>
    /\ fn_ret' = <<compare_row_counts(fn_args.domo_out, fn_args.sf_out)>>
    /\ UNCHANGED <<fn_name, fn_args, bp_vars, cmp_vars>>

NextRowCounts == ApplyCompareRowCounts

SpecRowCounts == InitRowCounts /\ [][NextRowCounts]_vars

\* C29: whenever the count query of the source, of the warehouse or of both
\* fails, compare_row_counts reports neither a match nor a negligible
\* difference.
C29_FailedCountNotMatching ==
    (/\ fn_name = "compare_row_counts"
     /\ fn_ret # <<>>
     /\ (fn_args.domo_out.kind # "count" \/ fn_args.sf_out.kind # "count"))
        => /\ ~fn_ret[1].match
           /\ ~fn_ret[1].negligible_analysis.is_negligible

====
